---- MODULE Spec2Model ----
(***************************************************************************)
(* Model of the mesh analysis engine of glb-analyzer.                      *)
(*                                                                         *)
(*   computeMeshDiagnostics   src/src/lib/types.ts 2333-2663               *)
(*   extractProblemGeometry   src/src/lib/types.ts  278-461                *)
(*                                                                         *)
(* A mesh is (positions, indices): positions is the flat coordinate array  *)
(* [x0,y0,z0,x1,...] and indices the flat array of vertex indices, three   *)
(* per triangle.  JavaScript arrays are 0-based; the sequences here are    *)
(* 1-based, so a[i] of the source is At(a, i).                             *)
(*                                                                         *)
(* Coordinates are integers (exactly representable as 32-bit floats).      *)
(* Every floating-point comparison of the source is carried out on exact   *)
(* integers by clearing denominators and squaring square roots; the        *)
(* comments at each comparison give the derivation.                        *)
(*                                                                         *)
(* A JavaScript Map or Set iterates in insertion order.  A Map is modelled *)
(* as [keys |-> sequence of keys in insertion order, get |-> function].    *)
(***************************************************************************)
EXTENDS Integers, Sequences, FiniteSets, TLC

(***************************************************************************)
(* Bounds of the model.                                                    *)
(***************************************************************************)
\* vertex counts up to which triangles with arbitrary index triples are fed
SmallV == 2
\* largest number of arbitrary triangles
MaxT == 2
\* largest number of faces (triangles i0 < i1 < i2, in increasing order)
MaxFaces == 4

(***************************************************************************)
(* Program constants.                                                      *)
(***************************************************************************)
MAX_VERTEX_FOR_NUMERIC_KEY == 67108864
MAP_SIZE_LIMIT == 16777216
MAX_SAFE_TRIANGLES == MAP_SIZE_LIMIT \div 3

VARIABLES
    positions,        \* Float32Array: flat coordinates, 3 per vertex
    indices,          \* index array: the explicitly represented entries
    extraTriangles,   \* triangles of the index array beyond `indices`
                      \* (their entries are never read: see IndicesLength)
    pc,               \* "input" | "analyzed" | "extracted"
    diagnostics,      \* MeshDiagnostics returned by computeMeshDiagnostics
    edgeFaceMap,      \* edge-face map built inside computeMeshDiagnostics
    problemGeometry,  \* ProblemGeometry returned by extractProblemGeometry
    overlayEdgeFaceMap, \* edge-face map built by buildEdgeFaceMap
    \* computeDiagnosticsFromDocument and the merge of handleAnalyze
    document,         \* the meshes of the glTF document, each a list of
                      \* primitives
    allPositions,     \* handleAnalyze: allPositions
    allIndices,       \* handleAnalyze: allIndices
    \* useGlbAnalyzer
    state,            \* AnalyzerState: status, result, error, modelUrl
    objectUrlRef,     \* objectUrlRef.current
    glbObjectUrl,     \* glbObjectUrl
    requestIdRef,     \* requestIdRef.current
    workerRef,        \* workerRef.current: whether the worker was created
    mounted,          \* whether the component is mounted
    liveUrls,         \* the object URLs created and not revoked
    calls,            \* the analyzeFile and analyzeUrl calls made: for each the await
                      \* it is at, or Null once it has returned
    \* analyzer.worker
    requests,         \* the requests posted to the worker and not handled
    tasks,            \* the handleAnalyze calls at an await
    posted,           \* the messages of the worker on their way to the hook
    sent,             \* for each request id what the worker has posted for it
    \* AnalysisPanel
    quality           \* the value returned by getQualityScore

meshVars == <<positions, indices, extraTriangles, pc, diagnostics, edgeFaceMap,
              problemGeometry, overlayEdgeFaceMap>>
mergeVars == <<document, allPositions, allIndices>>
hookVars == <<state, objectUrlRef, glbObjectUrl, requestIdRef, workerRef,
              mounted, liveUrls, calls>>
workerVars == <<requests, tasks, posted, sent>>

vars == <<meshVars, mergeVars, hookVars, workerVars, quality>>

(***************************************************************************)
(* Arrays, maps and sets of the host language.                             *)
(***************************************************************************)
At(a, i) == a[i + 1]

Range(s) == {s[i] : i \in 1..Len(s)}

Min2(a, b) == IF a < b THEN a ELSE b
Max2(a, b) == IF a < b THEN b ELSE a
Abs(a) == IF a < 0 THEN -a ELSE a

EmptyMap == [keys |-> <<>>, get |-> <<>>]

MapHas(m, k) == k \in DOMAIN m.get

\* Map.set: a new key goes to the end of the iteration order
MapSet(m, k, v) ==
    IF MapHas(m, k)
    THEN [m EXCEPT !.get = [x \in DOMAIN m.get |-> IF x = k THEN v ELSE m.get[x]]]
    ELSE [keys |-> Append(m.keys, k),
          get |-> [x \in DOMAIN m.get \cup {k} |-> IF x = k THEN v ELSE m.get[x]]]

\* Set.add on an insertion-ordered set
SetAdd(s, x) == IF x \in Range(s) THEN s ELSE Append(s, x)

\* x, once its value has been computed
Computed(x) == x = x

\* indices.length: the explicit entries plus three per extra triangle
IndicesLength(idx, extra) == Len(idx) + 3 * extra

(***************************************************************************)
(* Edge keys.                                                              *)
(***************************************************************************)
\* A key is a number of up to 52 bits.  It is kept as the pair of its
\* quotient and its remainder by MAX_VERTEX_FOR_NUMERIC_KEY:
\* <<q, r>> is the number q * MAX_VERTEX_FOR_NUMERIC_KEY + r, 0 <= r < 2^26.
KeyQuotient(key) == key[1]

KeyRemainder(key) == key[2]

\* the number high * MAX_VERTEX_FOR_NUMERIC_KEY + low
KeyNumber(high, low) ==
    <<high + low \div MAX_VERTEX_FOR_NUMERIC_KEY, low % MAX_VERTEX_FOR_NUMERIC_KEY>>

numericEdgeKey(a, b) ==
    LET min == IF a < b THEN a ELSE b
        max == IF a < b THEN b ELSE a
    IN  KeyNumber(min, max)

numericDirectedEdgeKey(from, to) == KeyNumber(from, to)

\* Math.floor(key / MAX_VERTEX_FOR_NUMERIC_KEY), key % MAX_VERTEX_FOR_NUMERIC_KEY
decodeEdgeKey(key) == <<KeyQuotient(key), KeyRemainder(key)>>

\* if (!map.has(k)) map.set(k, []); map.get(k).push(t)
PushFace(m, k, t) ==
    IF MapHas(m, k) THEN MapSet(m, k, Append(m.get[k], t))
    ELSE MapSet(m, k, <<t>>)

(***************************************************************************)
(* buildEdgeFaceMap(indices, triangleCount)                                *)
(***************************************************************************)
RECURSIVE buildEdgeFaceMapFrom(_, _, _, _)
buildEdgeFaceMapFrom(idx, triangleCount, t, m) ==
    IF t >= triangleCount THEN m
    ELSE LET i   == t * 3
             i0  == At(idx, i)
             i1  == At(idx, i + 1)
             i2  == At(idx, i + 2)
             e01 == numericEdgeKey(i0, i1)
             e12 == numericEdgeKey(i1, i2)
             e20 == numericEdgeKey(i2, i0)
         IN  buildEdgeFaceMapFrom(idx, triangleCount, t + 1,
                 PushFace(PushFace(PushFace(m, e01, t), e12, t), e20, t))

buildEdgeFaceMap(idx, triangleCount) ==
    buildEdgeFaceMapFrom(idx, triangleCount, 0, EmptyMap)

(***************************************************************************)
(* computeMeshDiagnostics: the edge map built inline ("Build edge map").   *)
(***************************************************************************)
\* the pass of the loop for triangle t
diagnosticsEdgeFaceMapPass(idx, m, t) ==
    LET i   == t * 3
        i0  == At(idx, i)
        i1  == At(idx, i + 1)
        i2  == At(idx, i + 2)
        e01 == numericEdgeKey(i0, i1)
        e12 == numericEdgeKey(i1, i2)
        e20 == numericEdgeKey(i2, i0)
    IN  PushFace(PushFace(PushFace(m, e01, t), e12, t), e20, t)

\* the passes lo .. hi - 1 in this order, the first half before the second
RECURSIVE diagnosticsEdgeFaceMapFrom(_, _, _, _)
diagnosticsEdgeFaceMapFrom(idx, lo, hi, acc) ==
    IF lo >= hi THEN acc
    ELSE IF hi = lo + 1 THEN diagnosticsEdgeFaceMapPass(idx, acc, lo)
    ELSE LET mid  == (lo + hi) \div 2
             left == diagnosticsEdgeFaceMapFrom(idx, lo, mid, acc)
         IN  IF Computed(left) THEN diagnosticsEdgeFaceMapFrom(idx, mid, hi, left) ELSE left

diagnosticsEdgeFaceMap(idx, triangleCount) ==
    diagnosticsEdgeFaceMapFrom(idx, 0, triangleCount, EmptyMap)

(***************************************************************************)
(* computeMeshDiagnostics: "Count boundary and non-manifold edges".        *)
(***************************************************************************)
\* a variant that takes an edge of two faces for a boundary edge
edgeClassOpen(count) ==
    IF count <= 2 THEN "boundary"
    ELSE "nonManifold"

\* a variant that takes two faces for non-manifold
edgeClassFromTwo(count) ==
    IF count = 1 THEN "boundary"
    ELSE IF count >= 2 THEN "nonManifold"
    ELSE "manifold"

\* if (count === 1) boundaryEdgeCount++ else if (count > 2) nonManifoldEdgeCount++
edgeClassOf(count) ==
    IF count = 1 THEN "boundary"
    ELSE IF count > 2 THEN "nonManifold"
    ELSE "manifold"

\* the pass of the loop for the k-th entry of the map
countEdgeClassesPass(m, acc, k) ==
    LET count == Len(m.get[m.keys[k]])
    IN  IF edgeClassOf(count) = "boundary"
        THEN [acc EXCEPT !.boundaryEdgeCount = @ + 1]
        ELSE IF edgeClassOf(count) = "nonManifold"
             THEN [acc EXCEPT !.nonManifoldEdgeCount = @ + 1]
             ELSE acc

\* the passes lo .. hi - 1 in this order, the first half before the second
RECURSIVE countEdgeClassesFrom(_, _, _, _)
countEdgeClassesFrom(m, lo, hi, acc) ==
    IF lo >= hi THEN acc
    ELSE IF hi = lo + 1 THEN countEdgeClassesPass(m, acc, lo)
    ELSE LET mid  == (lo + hi) \div 2
             left == countEdgeClassesFrom(m, lo, mid, acc)
         IN  IF Computed(left) THEN countEdgeClassesFrom(m, mid, hi, left) ELSE left

countEdgeClasses(m) ==
    countEdgeClassesFrom(m, 1, Len(m.keys) + 1, [boundaryEdgeCount |-> 0, nonManifoldEdgeCount |-> 0])

(***************************************************************************)
(* computeMeshDiagnostics: "Connected components using union-find".        *)
(* parent is the Uint32Array(vertexCount), here a function on 0..V-1.      *)
(***************************************************************************)
initialParent(vertexCount) == [i \in 0..(vertexCount - 1) |-> i]

\* what reading parent[x] gives for an x outside the array
Undefined == -1

\* the array after a call that ended in "RangeError: Maximum call stack size
\* exceeded"
Thrown == [i \in {Undefined} |-> Undefined]

\* find(x) with path compression: the result is the root and the array
\* after the assignments parent[x] = find(parent[x]) along the path.
\* For an x that is no index of the array parent[x] is undefined, the
\* assignment to parent[x] is dropped and undefined is returned.  On a
\* cycle of the array the recursion does not end and the call throws:
\* path holds the entries the recursion has passed.
RECURSIVE findIn(_, _, _)
findIn(parent, x, path) ==
    IF x \notin DOMAIN parent THEN [parent |-> parent, root |-> Undefined]
    ELSE IF x \in path
    THEN [parent |-> Thrown, root |-> Undefined]
    ELSE IF parent[x] # x
    THEN LET r == findIn(parent, parent[x], path \cup {x})
         IN  IF r.parent = Thrown THEN r
             ELSE [parent |-> [r.parent EXCEPT ![x] = r.root], root |-> r.root]
    ELSE [parent |-> parent, root |-> x]

find(parent, x) ==
    IF parent = Thrown THEN [parent |-> Thrown, root |-> Undefined]
    ELSE findIn(parent, x, {})

\* parent[rootA] = rootB: storing undefined in a Uint32Array stores 0, and
\* a store at the index undefined leaves the array as it is
union(parent, a, b) ==
    LET fa == find(parent, a)
        fb == find(fa.parent, b)
    IN  IF fb.parent = Thrown THEN Thrown
        ELSE IF fa.root # fb.root
        THEN IF fa.root = Undefined THEN fb.parent
             ELSE [fb.parent EXCEPT ![fa.root] =
                       IF fb.root = Undefined THEN 0 ELSE fb.root]
        ELSE fb.parent

\* a variant that joins only the first two corners
unionFirstSide(parent, i0, i1, i2) == union(parent, i0, i1)

\* union(i0, i1); union(i1, i2)
unionTriangle(parent, i0, i1, i2) == union(union(parent, i0, i1), i1, i2)

\* for (i = 0; i < indices.length; i += 3) { union(i0, i1); union(i1, i2) }
unionTrianglesPass(idx, parent, t) ==
    unionTriangle(parent, At(idx, 3 * t), At(idx, 3 * t + 1), At(idx, 3 * t + 2))

\* the passes lo .. hi - 1 in this order, the first half before the second
RECURSIVE unionTrianglesFrom(_, _, _, _)
unionTrianglesFrom(idx, lo, hi, acc) ==
    IF lo >= hi THEN acc
    ELSE IF hi = lo + 1 THEN unionTrianglesPass(idx, acc, lo)
    ELSE LET mid  == (lo + hi) \div 2
             left == unionTrianglesFrom(idx, lo, mid, acc)
         IN  IF Computed(left) THEN unionTrianglesFrom(idx, mid, hi, left) ELSE left

\* usedVertices: the indices below vertexCount, in order of first occurrence
usedVerticesPass(idx, vertexCount, used, i) ==
    IF At(idx, i) < vertexCount THEN SetAdd(used, At(idx, i)) ELSE used

\* the passes lo .. hi - 1 in this order, the first half before the second
RECURSIVE usedVerticesFrom(_, _, _, _, _)
usedVerticesFrom(idx, vertexCount, lo, hi, acc) ==
    IF lo >= hi THEN acc
    ELSE IF hi = lo + 1 THEN usedVerticesPass(idx, vertexCount, acc, lo)
    ELSE LET mid  == (lo + hi) \div 2
             left == usedVerticesFrom(idx, vertexCount, lo, mid, acc)
         IN  IF Computed(left) THEN usedVerticesFrom(idx, vertexCount, mid, hi, left) ELSE left

\* a variant whose loop starts at the second entry of indices
usedVerticesAfterFirst(idx, vertexCount) ==
    usedVerticesFrom(idx, vertexCount, 1, Len(idx), <<>>)

\* a variant that takes every vertex of the position array for used
allVerticesOf(idx, vertexCount) == [i \in 1..vertexCount |-> i - 1]

usedVerticesOf(idx, vertexCount) == usedVerticesFrom(idx, vertexCount, 0, Len(idx), <<>>)

\* for (const v of usedVertices) componentRoots.add(find(v))
\* find(v) may rewrite the array: the array goes from pass to pass with the
\* set of roots
componentRootsPass(used, acc, k) ==
    LET f == find(acc.parent, used[k])
    IN  [parent |-> f.parent, roots |-> SetAdd(acc.roots, f.root)]

\* the passes lo .. hi - 1 in this order, the first half before the second
RECURSIVE componentRootsFrom(_, _, _, _)
componentRootsFrom(used, lo, hi, acc) ==
    IF lo >= hi THEN acc
    ELSE IF hi = lo + 1 THEN componentRootsPass(used, acc, lo)
    ELSE LET mid  == (lo + hi) \div 2
             left == componentRootsFrom(used, lo, mid, acc)
         IN  IF Computed(left) THEN componentRootsFrom(used, mid, hi, left) ELSE left

connectedComponentsOf(idx, vertexCount) ==
    LET parent == unionTrianglesFrom(idx, 0, (Len(idx) + 2) \div 3, initialParent(vertexCount))
        used   == usedVerticesOf(idx, vertexCount)
    IN  Len(componentRootsFrom(used, 1, Len(used) + 1, [parent |-> parent, roots |-> <<>>]).roots)

\* whether a call of find in these passes throws the RangeError; after it
\* every later call gives undefined here, and no root of a used vertex is
\* undefined otherwise
unionFindThrows(idx, vertexCount) ==
    LET parent == unionTrianglesFrom(idx, 0, (Len(idx) + 2) \div 3, initialParent(vertexCount))
        used   == usedVerticesOf(idx, vertexCount)
    IN  \/ parent = Thrown
        \/ Undefined \in Range(componentRootsFrom(used, 1, Len(used) + 1, [parent |-> parent, roots |-> <<>>]).roots)

(***************************************************************************)
(* detectWindingConsistency(indices)                                       *)
(* consistencyPercent is the rational num/den (den > 0); -1 is -1/1.       *)
(***************************************************************************)
IncrementCount(m, k) ==
    MapSet(m, k, (IF MapHas(m, k) THEN m.get[k] ELSE 0) + 1)

directedEdgeCountsPass(idx, m, t) ==
    LET i   == t * 3
        v0  == At(idx, i)
        v1  == At(idx, i + 1)
        v2  == At(idx, i + 2)
        e01 == numericDirectedEdgeKey(v0, v1)
        e12 == numericDirectedEdgeKey(v1, v2)
        e20 == numericDirectedEdgeKey(v2, v0)
    IN  IncrementCount(IncrementCount(IncrementCount(m, e01), e12), e20)

\* the passes lo .. hi - 1 in this order, the first half before the second
RECURSIVE directedEdgeCountsFrom(_, _, _, _)
directedEdgeCountsFrom(idx, lo, hi, acc) ==
    IF lo >= hi THEN acc
    ELSE IF hi = lo + 1 THEN directedEdgeCountsPass(idx, acc, lo)
    ELSE LET mid  == (lo + hi) \div 2
             left == directedEdgeCountsFrom(idx, lo, mid, acc)
         IN  IF Computed(left) THEN directedEdgeCountsFrom(idx, mid, hi, left) ELSE left

directedEdgeCountsOf(idx, triangleCount) ==
    directedEdgeCountsFrom(idx, 0, triangleCount, EmptyMap)

\* a variant that counts the edges traversed once each way
isConsistentPair(forwardCount, backwardCount) ==
    forwardCount = 1 /\ backwardCount = 1

\* if (forwardCount !== 1 || backwardCount !== 1) inconsistentEdgeCount++
isInconsistentPair(forwardCount, backwardCount) ==
    forwardCount # 1 \/ backwardCount # 1

\* the loop over directedEdgeCounts.entries()
windingLoopPass(m, acc, k) ==
    LET directedEdgeKey == m.keys[k]
        forwardCount    == m.get[directedEdgeKey]
        from            == KeyQuotient(directedEdgeKey)
        to              == KeyRemainder(directedEdgeKey)
        undirectedKey   == numericEdgeKey(from, to)
        oppositeEdgeKey == numericDirectedEdgeKey(to, from)
        backwardCount   == IF MapHas(m, oppositeEdgeKey)
                           THEN m.get[oppositeEdgeKey] ELSE 0
        totalTriangles  == forwardCount + backwardCount
    IN  IF undirectedKey \in acc.checkedEdges
        THEN acc
        ELSE LET checked == acc.checkedEdges \cup {undirectedKey}
             IN  IF totalTriangles < 2 \/ totalTriangles > 2
                 THEN [acc EXCEPT !.checkedEdges = checked]
                 ELSE [checkedEdges |-> checked,
                       manifoldEdgeCount |-> acc.manifoldEdgeCount + 1,
                       inconsistentEdgeCount |->
                           IF isInconsistentPair(forwardCount, backwardCount)
                           THEN acc.inconsistentEdgeCount + 1
                           ELSE acc.inconsistentEdgeCount]

\* the passes lo .. hi - 1 in this order, the first half before the second
RECURSIVE windingLoopFrom(_, _, _, _)
windingLoopFrom(m, lo, hi, acc) ==
    IF lo >= hi THEN acc
    ELSE IF hi = lo + 1 THEN windingLoopPass(m, acc, lo)
    ELSE LET mid  == (lo + hi) \div 2
             left == windingLoopFrom(m, lo, mid, acc)
         IN  IF Computed(left) THEN windingLoopFrom(m, mid, hi, left) ELSE left

\* a variant that reports the share of the inconsistent edges
windingPercentInconsistent(manifoldEdgeCount, inconsistentEdgeCount) ==
    IF manifoldEdgeCount > 0
    THEN [num |-> inconsistentEdgeCount * 100, den |-> manifoldEdgeCount]
    ELSE [num |-> 100, den |-> 1]

\* manifoldEdgeCount > 0
\*     ? ((manifoldEdgeCount - inconsistentEdgeCount) / manifoldEdgeCount) * 100
\*     : 100, as the fraction num / den
windingPercent(manifoldEdgeCount, inconsistentEdgeCount) ==
    IF manifoldEdgeCount > 0
    THEN [num |-> (manifoldEdgeCount - inconsistentEdgeCount) * 100,
          den |-> manifoldEdgeCount]
    ELSE [num |-> 100, den |-> 1]

detectWindingConsistency(idx, length) ==
    LET triangleCount == length \div 3
    IN  IF triangleCount > MAX_SAFE_TRIANGLES
        THEN [inconsistentEdgeCount |-> 0,
              consistencyPercent |-> [num |-> -1, den |-> 1],
              skipped |-> TRUE]
        ELSE LET m == directedEdgeCountsOf(idx, triangleCount)
                 r == windingLoopFrom(m, 1, Len(m.keys) + 1, [checkedEdges |-> {},
                                             manifoldEdgeCount |-> 0,
                                             inconsistentEdgeCount |-> 0])
             IN  [inconsistentEdgeCount |-> r.inconsistentEdgeCount,
                  consistencyPercent |->
                      windingPercent(r.manifoldEdgeCount, r.inconsistentEdgeCount),
                  skipped |-> FALSE]

(***************************************************************************)
(* detectNonManifoldVertices(indices)                                      *)
(***************************************************************************)
vertexToTrianglesPass(idx, m, triIdx) ==
    LET i0 == At(idx, 3 * triIdx)
        i1 == At(idx, 3 * triIdx + 1)
        i2 == At(idx, 3 * triIdx + 2)
    IN  PushFace(PushFace(PushFace(m, i0, triIdx), i1, triIdx), i2, triIdx)

\* the passes lo .. hi - 1 in this order, the first half before the second
RECURSIVE vertexToTrianglesFrom(_, _, _, _)
vertexToTrianglesFrom(idx, lo, hi, acc) ==
    IF lo >= hi THEN acc
    ELSE IF hi = lo + 1 THEN vertexToTrianglesPass(idx, acc, lo)
    ELSE LET mid  == (lo + hi) \div 2
             left == vertexToTrianglesFrom(idx, lo, mid, acc)
         IN  IF Computed(left) THEN vertexToTrianglesFrom(idx, mid, hi, left) ELSE left

\* a variant that records v2 as a neighbour of v1 and not v1 as one of v2
LinkAddOneWay(g, v1, v2) ==
    LET g1 == IF MapHas(g, v1) THEN g ELSE MapSet(g, v1, <<>>)
        g2 == IF MapHas(g1, v2) THEN g1 ELSE MapSet(g1, v2, <<>>)
    IN  MapSet(g2, v1, SetAdd(g2.get[v1], v2))

\* edgeGraph.get(a).add(b), creating the entries of v1 and of v2 first
LinkAdd(g, v1, v2) ==
    LET g1 == IF MapHas(g, v1) THEN g ELSE MapSet(g, v1, <<>>)
        g2 == IF MapHas(g1, v2) THEN g1 ELSE MapSet(g1, v2, <<>>)
        g3 == MapSet(g2, v1, SetAdd(g2.get[v1], v2))
    IN  MapSet(g3, v2, SetAdd(g3.get[v2], v1))

\* [i0, i1, i2].filter((vi) => vi !== v)
OthersOf(i0, i1, i2, v) ==
    SelectSeq(<<i0, i1, i2>>, LAMBDA vi : vi # v)

RECURSIVE edgeGraphFrom(_, _, _, _, _)
edgeGraphFrom(idx, v, triangles, k, g) ==
    IF k > Len(triangles) THEN g
    ELSE LET i      == triangles[k] * 3
             others == OthersOf(At(idx, i), At(idx, i + 1), At(idx, i + 2), v)
         IN  IF Len(others) # 2
             THEN edgeGraphFrom(idx, v, triangles, k + 1, g)
             ELSE edgeGraphFrom(idx, v, triangles, k + 1,
                                LinkAdd(g, others[1], others[2]))

\* push the neighbours that are not visited yet
RECURSIVE pushUnvisited(_, _, _, _)
pushUnvisited(queue, neighbors, k, visited) ==
    IF k > Len(neighbors) THEN queue
    ELSE pushUnvisited(IF neighbors[k] \in visited THEN queue
                       ELSE Append(queue, neighbors[k]),
                       neighbors, k + 1, visited)

\* while (head < queue.length) { ... }: the set visited at the end
RECURSIVE bfsFrom(_, _, _, _)
bfsFrom(g, queue, head, visited) ==
    IF head >= Len(queue) THEN visited
    ELSE LET current == At(queue, head)
         IN  IF current \in visited
             THEN bfsFrom(g, queue, head + 1, visited)
             ELSE LET seen == visited \cup {current}
                  IN  bfsFrom(g,
                              IF MapHas(g, current)
                              THEN pushUnvisited(queue, g.get[current], 1, seen)
                              ELSE queue,
                              head + 1, seen)

nonManifoldCountPass(idx, v2t, nonManifoldCount, k) ==
    LET v         == v2t.keys[k]
        triangles == v2t.get[v]
        edgeGraph == edgeGraphFrom(idx, v, triangles, 1, EmptyMap)
    IN  IF Len(triangles) = 0 \/ Len(edgeGraph.keys) = 0
        THEN nonManifoldCount
        ELSE LET visited == bfsFrom(edgeGraph, <<edgeGraph.keys[1]>>, 0, {})
             IN  IF Cardinality(visited) # Len(edgeGraph.keys)
                 THEN nonManifoldCount + 1
                 ELSE nonManifoldCount

\* the passes lo .. hi - 1 in this order, the first half before the second
RECURSIVE nonManifoldCountFrom(_, _, _, _, _)
nonManifoldCountFrom(idx, v2t, lo, hi, acc) ==
    IF lo >= hi THEN acc
    ELSE IF hi = lo + 1 THEN nonManifoldCountPass(idx, v2t, acc, lo)
    ELSE LET mid  == (lo + hi) \div 2
             left == nonManifoldCountFrom(idx, v2t, lo, mid, acc)
         IN  IF Computed(left) THEN nonManifoldCountFrom(idx, v2t, mid, hi, left) ELSE left

detectNonManifoldVertices(idx) ==
    LET v2t == vertexToTrianglesFrom(idx, 0, (Len(idx) + 2) \div 3, EmptyMap)
    IN  nonManifoldCountFrom(idx, v2t, 1, Len(v2t.keys) + 1, 0)

(***************************************************************************)
(* extractProblemGeometry: "Extract non-manifold vertices (pinch points)". *)
(* The source repeats the loop of detectNonManifoldVertices and pushes the *)
(* three coordinates of each non-manifold vertex.                          *)
(***************************************************************************)
RECURSIVE overlayVertexToTrianglesFrom(_, _, _)
overlayVertexToTrianglesFrom(idx, i, m) ==
    IF i >= Len(idx) THEN m
    ELSE LET triIdx == i \div 3
             i0 == At(idx, i)
             i1 == At(idx, i + 1)
             i2 == At(idx, i + 2)
         IN  overlayVertexToTrianglesFrom(idx, i + 3,
                 PushFace(PushFace(PushFace(m, i0, triIdx), i1, triIdx), i2, triIdx))

RECURSIVE overlayEdgeGraphFrom(_, _, _, _, _)
overlayEdgeGraphFrom(idx, v, triangles, k, g) ==
    IF k > Len(triangles) THEN g
    ELSE LET i      == triangles[k] * 3
             others == OthersOf(At(idx, i), At(idx, i + 1), At(idx, i + 2), v)
         IN  IF Len(others) # 2
             THEN overlayEdgeGraphFrom(idx, v, triangles, k + 1, g)
             ELSE overlayEdgeGraphFrom(idx, v, triangles, k + 1,
                                       LinkAdd(g, others[1], others[2]))

RECURSIVE overlayBfsFrom(_, _, _, _)
overlayBfsFrom(g, queue, head, visited) ==
    IF head >= Len(queue) THEN visited
    ELSE LET current == At(queue, head)
         IN  IF current \in visited
             THEN overlayBfsFrom(g, queue, head + 1, visited)
             ELSE LET seen == visited \cup {current}
                  IN  overlayBfsFrom(g,
                              IF MapHas(g, current)
                              THEN pushUnvisited(queue, g.get[current], 1, seen)
                              ELSE queue,
                              head + 1, seen)

RECURSIVE nonManifoldVertexPositionsFrom(_, _, _, _, _)
nonManifoldVertexPositionsFrom(pos, idx, v2t, k, out) ==
    IF k > Len(v2t.keys) THEN out
    ELSE LET v         == v2t.keys[k]
             triangles == v2t.get[v]
             edgeGraph == overlayEdgeGraphFrom(idx, v, triangles, 1, EmptyMap)
         IN  IF Len(triangles) = 0 \/ Len(edgeGraph.keys) = 0
             THEN nonManifoldVertexPositionsFrom(pos, idx, v2t, k + 1, out)
             ELSE LET visited ==
                          overlayBfsFrom(edgeGraph, <<edgeGraph.keys[1]>>, 0, {})
                  IN  nonManifoldVertexPositionsFrom(pos, idx, v2t, k + 1,
                          IF Cardinality(visited) # Len(edgeGraph.keys)
                          THEN out \o <<At(pos, v * 3), At(pos, v * 3 + 1),
                                        At(pos, v * 3 + 2)>>
                          ELSE out)

\* if (diagnostics.nonManifoldVertexCount > 0) { ... }
nonManifoldVertexPositions(pos, idx, diag) ==
    IF diag.nonManifoldVertexCount > 0
    THEN nonManifoldVertexPositionsFrom(pos, idx,
             overlayVertexToTrianglesFrom(idx, 0, EmptyMap), 1, <<>>)
    ELSE <<>>

(***************************************************************************)
(* Geometry on integer coordinates.                                        *)
(***************************************************************************)
\* vertex v as <<x, y, z>>: positions[v*3], positions[v*3+1], positions[v*3+2]
VertexAt(pos, v) == <<At(pos, v * 3), At(pos, v * 3 + 1), At(pos, v * 3 + 2)>>

Sub(p, q) == <<p[1] - q[1], p[2] - q[2], p[3] - q[3]>>
Dot(p, q) == p[1] * q[1] + p[2] * q[2] + p[3] * q[3]
Cross(p, q) == <<p[2] * q[3] - p[3] * q[2],
                 p[3] * q[1] - p[1] * q[3],
                 p[1] * q[2] - p[2] * q[1]>>
NormSq(p) == Dot(p, p)

\* floor(sqrt(n)) for n >= 0, by bisection on lo <= root <= hi
RECURSIVE IsqrtIn(_, _, _)
IsqrtIn(n, lo, hi) ==
    IF lo >= hi THEN lo
    ELSE LET mid == (lo + hi + 1) \div 2
         IN  IF mid * mid <= n THEN IsqrtIn(n, mid, hi) ELSE IsqrtIn(n, lo, mid - 1)

Isqrt(n) == IsqrtIn(n, 0, Min2(n, 46340))

\* floor(a / sqrt(d)) for integers a and d > 0:
\*   a >= 0: the largest c with c*c*d <= a*a;  a < 0: minus the smallest c
\*   with c*c*d >= a*a
FloorDivSqrt(a, d) ==
    IF a >= 0 THEN Isqrt((a * a) \div d)
    ELSE -(Isqrt((a * a - 1) \div d) + 1)

(***************************************************************************)
(* computeBoundingBox(positions) of mesh-diagnostics.                      *)
(* diagonal = sqrt(diagonalSq); the record keeps the square.               *)
(***************************************************************************)
RECURSIVE boundingBoxFrom(_, _, _, _)
boundingBoxFrom(pos, vertexCount, i, acc) ==
    IF i >= vertexCount THEN acc
    ELSE LET p == VertexAt(pos, i)
         IN  boundingBoxFrom(pos, vertexCount, i + 1,
                 [min |-> <<Min2(p[1], acc.min[1]), Min2(p[2], acc.min[2]),
                            Min2(p[3], acc.min[3])>>,
                  max |-> <<Max2(acc.max[1], p[1]), Max2(acc.max[2], p[2]),
                            Max2(acc.max[3], p[3])>>])

\* the value null of an optional block
Null == [null |-> TRUE]

\* computeStats(values): null for no values, otherwise the block of min,
\* max, mean, median and stdDev; the block is kept without its numbers
computeStats(valueCount) ==
    IF valueCount = 0 THEN Null ELSE [null |-> FALSE]

\* computeValenceDistribution: valences[v] is the number of entries of the
\* index array equal to v (for v < vertexCount); distribution[val] is the
\* number of vertices of valence val > 0.  The object returned is the
\* field counts; null is never returned.
computeValenceDistribution(idx, vertexCount) ==
    LET valences == [v \in 0..(vertexCount - 1) |->
                        Cardinality({i \in 1..Len(idx) : idx[i] = v})]
        vals     == {valences[v] : v \in 0..(vertexCount - 1)} \ {0}
    IN  [null |-> FALSE,
         counts |-> [val \in vals |->
                        Cardinality({v \in 0..(vertexCount - 1) :
                                        valences[v] = val})]]

computeBoundingBox(pos) ==
    LET vertexCount == Len(pos) \div 3
    IN  IF vertexCount = 0
        THEN [min |-> <<0, 0, 0>>, max |-> <<0, 0, 0>>, size |-> <<0, 0, 0>>,
              diagonalSq |-> 0]
        ELSE LET first == VertexAt(pos, 0)
                 b     == boundingBoxFrom(pos, vertexCount, 1,
                                          [min |-> first, max |-> first])
                 size  == Sub(b.max, b.min)
             IN  [min |-> b.min, max |-> b.max, size |-> size,
                  diagonalSq |-> NormSq(size)]

(***************************************************************************)
(* T-junctions: detectTJunctions (diagnostics) and findTJunctionVertices   *)
(* (overlay).                                                              *)
(***************************************************************************)
\* vertexTriangles: Map<vertex, Set<triangle>>; only membership is used
adjacentTrisOf(idx, triangleCount, v) ==
    {t \in 0..(triangleCount - 1) :
        v \in {At(idx, t * 3), At(idx, t * 3 + 1), At(idx, t * 3 + 2)}}

\* the edge list: one entry per undirected edge, with the end points in the
\* order of the first triangle side that has the edge
RECURSIVE edgeListFrom(_, _, _, _, _, _)
edgeListFrom(idx, vertexCount, triangleCount, s, edgeSet, edges) ==
    IF s >= 3 * triangleCount THEN edges
    ELSE LET t  == s \div 3
             va == At(idx, t * 3 + (s % 3))
             vb == At(idx, t * 3 + ((s + 1) % 3))
             edgeKey == IF va < vb THEN va * vertexCount + vb
                        ELSE vb * vertexCount + va
         IN  IF edgeKey \in edgeSet
             THEN edgeListFrom(idx, vertexCount, triangleCount, s + 1, edgeSet, edges)
             ELSE edgeListFrom(idx, vertexCount, triangleCount, s + 1,
                               edgeSet \cup {edgeKey},
                               Append(edges, [v0 |-> va, v1 |-> vb]))

edgeListOf(idx, vertexCount, triangleCount) ==
    edgeListFrom(idx, vertexCount, triangleCount, 0, {}, <<>>)

\* The test of one vertex against one edge, up to and including
\* "if (!isConnected)".  toleranceSq = tolD * 1e-8 where tolD is the square
\* of the diagonal the caller uses.
\*   t = dot / edgeLenSq;  t <= 0.01  <=>  100*dot <= edgeLenSq;
\*                         t >= 0.99  <=>  100*dot >= 99*edgeLenSq
\*   distSq = |pv|^2 - dot^2/edgeLenSq = crossSq / edgeLenSq
\*   distSq < tolD*1e-8  <=>  crossSq * 10^8 < tolD * edgeLenSq
\*                       <=>  crossSq < ceil(tolD * edgeLenSq / 10^8)
\* tolD = 0 stands for the diagonal 0 (toleranceSq = 0) and tolD = -1 for the
\* clamped diagonal 1e-6 (toleranceSq = 1e-20): crossSq/edgeLenSq < 1e-20
\* holds exactly when crossSq = 0.
IsTJunctionAt(pos, idx, triangleCount, v, edge, tolD) ==
    LET p0        == VertexAt(pos, edge.v0)
        p1        == VertexAt(pos, edge.v1)
        e         == Sub(p1, p0)
        edgeLenSq == NormSq(e)
        pv        == Sub(VertexAt(pos, v), p0)
        dot       == Dot(pv, e)
        crossSq   == NormSq(pv) * edgeLenSq - dot * dot
        near      == IF tolD = -1 THEN crossSq = 0
                     ELSE crossSq < (tolD * edgeLenSq + 99999999) \div 100000000
        isConnected ==
            \E triIdx \in adjacentTrisOf(idx, triangleCount, v) :
                {edge.v0, edge.v1} \subseteq
                    {At(idx, triIdx * 3), At(idx, triIdx * 3 + 1),
                     At(idx, triIdx * 3 + 2)}
    IN  /\ edge.v0 # v
        /\ edge.v1 # v
        /\ edgeLenSq # 0
        /\ ~(100 * dot <= edgeLenSq \/ 100 * dot >= 99 * edgeLenSq)
        /\ near
        /\ ~isConnected

\* Math.floor(p / cellSize) for the coordinate p = twice / 2, where
\* cellSize = max(tolerance * 10, 1e-6), tolerance = diagonal * 1e-4 and
\* diagonal = max(sqrt(diagonalSq), 1e-6):
\*   diagonalSq = 0: cellSize = 1e-6,            floor(p / 1e-6) = 500000*twice
\*   diagonalSq > 0: cellSize = sqrt(diagonalSq)/1000,
\*                   floor(p / cellSize) = floor(500*twice / sqrt(diagonalSq))
TJunctionCell(twice, diagonalSq) ==
    IF diagonalSq = 0 THEN 500000 * twice
    ELSE FloorDivSqrt(500 * twice, diagonalSq)

\* the cells of the two end points and of the mid point of an edge;
\* coordinates are doubled so that the mid point is integral
edgeCellsOf(pos, edge, diagonalSq) ==
    LET p0 == VertexAt(pos, edge.v0)
        p1 == VertexAt(pos, edge.v1)
        CellOfPoint(q) == <<TJunctionCell(q[1], diagonalSq),
                            TJunctionCell(q[2], diagonalSq),
                            TJunctionCell(q[3], diagonalSq)>>
    IN  {CellOfPoint(<<2 * p0[1], 2 * p0[2], 2 * p0[3]>>),
         CellOfPoint(<<2 * p1[1], 2 * p1[2], 2 * p1[3]>>),
         CellOfPoint(<<p0[1] + p1[1], p0[2] + p1[2], p0[3] + p1[3]>>)}

\* nearbyEdges: the edges registered in the cell of v or one of its 26
\* neighbours
nearbyEdgesOf(pos, edges, v, diagonalSq) ==
    LET p == VertexAt(pos, v)
        c == <<TJunctionCell(2 * p[1], diagonalSq),
               TJunctionCell(2 * p[2], diagonalSq),
               TJunctionCell(2 * p[3], diagonalSq)>>
    IN  {k \in 1..Len(edges) :
            \E cell \in edgeCellsOf(pos, edges[k], diagonalSq) :
                /\ Abs(cell[1] - c[1]) <= 1
                /\ Abs(cell[2] - c[2]) <= 1
                /\ Abs(cell[3] - c[3]) <= 1}

\* The loop over nearbyEdges counts v once, at the first edge that passes
\* the test, and breaks: v is counted iff some nearby edge passes.
detectTJunctions(pos, idx, boundingBox) ==
    LET vertexCount   == Len(pos) \div 3
        triangleCount == Len(idx) \div 3
        diagonalSq    == boundingBox.diagonalSq
        tolD          == IF diagonalSq = 0 THEN -1 ELSE diagonalSq
        edges         == edgeListOf(idx, vertexCount, triangleCount)
    IN  [count |-> Cardinality(
            {v \in 0..(vertexCount - 1) :
                \E k \in nearbyEdgesOf(pos, edges, v, diagonalSq) :
                    IsTJunctionAt(pos, idx, triangleCount, v, edges[k], tolD)})]

\* findTJunctionVertices checks each vertex against every edge of the list;
\* diagonal = diagnostics.boundingBox?.diagonal ?? 1, not clamped
RECURSIVE findTJunctionVerticesFrom(_, _, _, _, _, _, _)
findTJunctionVerticesFrom(pos, idx, triangleCount, edges, tolD, v, out) ==
    IF v >= Len(pos) \div 3 THEN out
    ELSE findTJunctionVerticesFrom(pos, idx, triangleCount, edges, tolD, v + 1,
             IF \E k \in 1..Len(edges) :
                    IsTJunctionAt(pos, idx, triangleCount, v, edges[k], tolD)
             THEN Append(out, v) ELSE out)

findTJunctionVertices(pos, idx, diag) ==
    LET vertexCount   == Len(pos) \div 3
        triangleCount == Len(idx) \div 3
    IN  findTJunctionVerticesFrom(pos, idx, triangleCount,
            edgeListOf(idx, vertexCount, triangleCount),
            diag.boundingBox.diagonalSq, 0, <<>>)

(***************************************************************************)
(* Geometry quality of computeMeshDiagnostics.                             *)
(* Coordinates are integers, so every squared length and every squared     *)
(* normal is an integer and the floating-point comparisons of the code     *)
(* become comparisons of integers.                                         *)
(***************************************************************************)
\* the three corners of triangle t as points
TrianglePoints(pos, idx, t) ==
    <<VertexAt(pos, At(idx, t * 3)), VertexAt(pos, At(idx, t * 3 + 1)),
      VertexAt(pos, At(idx, t * 3 + 2))>>

\* computeFaceNormal: (v1 - v0) x (v2 - v0), not normalised
computeFaceNormal(pos, i0, i1, i2) ==
    Cross(Sub(VertexAt(pos, i1), VertexAt(pos, i0)),
          Sub(VertexAt(pos, i2), VertexAt(pos, i0)))

\* nx*nx + ny*ny + nz*nz of triangle t: areaSq = 0.25 * normalSq
normalSqOf(pos, idx, t) ==
    NormSq(computeFaceNormal(pos, At(idx, t * 3), At(idx, t * 3 + 1),
                             At(idx, t * 3 + 2)))

\* the squares of e0 = |v1 - v0|, e1 = |v2 - v1|, e2 = |v0 - v2|
sideSquaresOf(pos, idx, t) ==
    LET p == TrianglePoints(pos, idx, t)
    IN  <<NormSq(Sub(p[2], p[1])), NormSq(Sub(p[3], p[2])), NormSq(Sub(p[1], p[3]))>>

Max3(q) == Max2(q[1], Max2(q[2], q[3]))

\* the degenerate-triangle loops.  avgEdgeLength is the mean side length of
\* the first sampleLimit triangles; a triangle is degenerate when
\*     0.25 * normalSq < 0.1875 * avgEdgeLength^2 * 1e-8
\* <=> 400000000 * normalSq < 3 * avgEdgeLength^2.
\* normalSq = 0: true exactly when avgEdgeLength > 0, that is when some
\* sampled side is not 0.  normalSq >= 1: avgEdgeLength^2 is at most the
\* largest sampled squared side maxSq, so the test fails when
\* 3 * maxSq <= 400000000 * normalSq; beyond that it is decided on maxSq.
degenerateTriangleCountOf(pos, idx) ==
    LET triangleCount == Len(idx) \div 3
        sampleLimit   == Min2(triangleCount, 1000)
        sampled       == {sideSquaresOf(pos, idx, t) : t \in 0..(sampleLimit - 1)}
        avgPositive   == \E q \in sampled : Max3(q) > 0
        maxSq         == IF sampled = {} THEN 0
                         ELSE CHOOSE m \in {Max3(q) : q \in sampled} :
                                  \A q \in sampled : Max3(q) <= m
        belowThreshold(normalSq) ==
            IF normalSq = 0 THEN avgPositive
            ELSE normalSq < (3 * maxSq) \div 400000000
    IN  Cardinality({t \in 0..(triangleCount - 1) :
                        belowThreshold(normalSqOf(pos, idx, t))})

\* Math.floor(x / cellSize) of detectDuplicateVertices, cellSize = 1e-6 * 10,
\* for an integer coordinate x >= 0
duplicateCell(x) == 100000 * x

\* detectDuplicateVertices: vertex i is a duplicate when a vertex j < i of
\* the same cell is at a squared distance below 1e-12, that is at distance 0
RECURSIVE detectDuplicateVerticesFrom(_, _, _)
detectDuplicateVerticesFrom(pos, i, duplicateCount) ==
    IF i >= Len(pos) \div 3 THEN duplicateCount
    ELSE LET p    == VertexAt(pos, i)
             key(q) == <<duplicateCell(q[1]), duplicateCell(q[2]), duplicateCell(q[3])>>
             cell == {j \in 0..(i - 1) : key(VertexAt(pos, j)) = key(p)}
             isDuplicate == \E j \in cell : NormSq(Sub(p, VertexAt(pos, j))) = 0
         IN  detectDuplicateVerticesFrom(pos, i + 1,
                 IF isDuplicate THEN duplicateCount + 1 ELSE duplicateCount)

\* a variant whose counter starts below 0
detectDuplicateVerticesFromMinusOne(pos) == detectDuplicateVerticesFrom(pos, 0, -1)

detectDuplicateVertices(pos) == detectDuplicateVerticesFrom(pos, 0, 0)

\* computeAspectRatio > 10, with isFinite(ar).  Heron's areaSq is
\* normalSq / 4; it is 0 (ar = Infinity) for a triangle without area.
\* Otherwise ar = maxEdge / (2 * area / maxEdge) = maxEdge^2 / sqrt(normalSq),
\* and ar > 10  <=>  maxEdge^4 > 100 * normalSq.
isNeedle(pos, idx, t) ==
    LET normalSq == normalSqOf(pos, idx, t)
        maxSq    == Max3(sideSquaresOf(pos, idx, t))
    IN  normalSq > 0 /\ maxSq * maxSq > 100 * normalSq

needleTriangleCountOf(pos, idx) ==
    Cardinality({t \in 0..((Len(idx) \div 3) - 1) : isNeedle(pos, idx, t)})

\* aspectRatios: one value for each triangle with isFinite(ar), that is
\* with an area
finiteAspectRatioCount(pos, idx) ==
    Cardinality({t \in 0..((Len(idx) \div 3) - 1) : normalSqOf(pos, idx, t) > 0})

\* [...triangleAreas].sort((a, b) => a - b), on the squared normals
RECURSIVE InsertSorted(_, _)
InsertSorted(sorted, x) ==
    IF sorted = <<>> THEN <<x>>
    ELSE IF x < Head(sorted) THEN <<x>> \o sorted
         ELSE <<Head(sorted)>> \o InsertSorted(Tail(sorted), x)

RECURSIVE sortedAreasFrom(_, _, _, _)
sortedAreasFrom(pos, idx, t, sorted) ==
    IF t >= Len(idx) \div 3 THEN sorted
    ELSE sortedAreasFrom(pos, idx, t + 1,
                         InsertSorted(sorted, normalSqOf(pos, idx, t)))

\* area = 0.5 * sqrt(normalSq); medianArea = sortedAreas[floor(length / 2)];
\* area < medianArea * 0.01 && area > 0
\*     <=>  normalSq > 0 and 10000 * normalSq < the median's normalSq
tinyTriangleCountOf(pos, idx) ==
    LET triangleCount == Len(idx) \div 3
        sortedAreas   == sortedAreasFrom(pos, idx, 0, <<>>)
        medianSq      == IF Len(sortedAreas) > 0
                         THEN At(sortedAreas, Len(sortedAreas) \div 2)
                         ELSE 0
    IN  Cardinality({t \in 0..(triangleCount - 1) :
                        LET normalSq == normalSqOf(pos, idx, t)
                        IN  normalSq > 0 /\ 10000 * normalSq < medianSq})

\* computeDihedralAngles: over the edges with exactly two faces whose
\* normals n1, n2 are not 0, with d = n1.n2, A = |n1|^2, B = |n2|^2:
\*   dihedralAngle < 30   <=>  d/sqrt(AB) < cos 150  <=>  d < 0 and 4d^2 > 3AB
\*   dihedralAngle > 170  <=>  d/sqrt(AB) > cos 10   <=>  d > 0 and d^2 > c*AB
\* where c = cos^2(10 deg) = 0.96984631..., 1576/1625 < c < 193/199; the
\* second test is decided on 193/199:
\*   199*d^2 >= 193*AB  <=>  199*(AB - d^2) <= 6*AB  <=>  AB - d^2 <= 6*AB/199
\* with floor(6*AB / 199) = 6*floor(AB / 199) + floor(6*(AB mod 199) / 199)
RECURSIVE dihedralCountsFrom(_, _, _, _, _)
dihedralCountsFrom(pos, idx, m, k, acc) ==
    IF k > Len(m.keys) THEN acc
    ELSE LET faces == m.get[m.keys[k]]
             n1 == computeFaceNormal(pos, At(idx, faces[1] * 3),
                       At(idx, faces[1] * 3 + 1), At(idx, faces[1] * 3 + 2))
             n2 == computeFaceNormal(pos, At(idx, faces[2] * 3),
                       At(idx, faces[2] * 3 + 1), At(idx, faces[2] * 3 + 2))
             d  == Dot(n1, n2)
             ab == NormSq(n1) * NormSq(n2)
         IN  IF Len(faces) # 2 THEN dihedralCountsFrom(pos, idx, m, k + 1, acc)
             ELSE IF ab = 0 THEN dihedralCountsFrom(pos, idx, m, k + 1, acc)
             ELSE dihedralCountsFrom(pos, idx, m, k + 1,
                     [sharpEdgeCount |->
                          IF d < 0 /\ 4 * d * d > 3 * ab
                          THEN acc.sharpEdgeCount + 1 ELSE acc.sharpEdgeCount,
                      coplanarEdgeCount |->
                          IF d > 0 /\ ab - d * d <= 6 * (ab \div 199) + (6 * (ab % 199)) \div 199
                          THEN acc.coplanarEdgeCount + 1 ELSE acc.coplanarEdgeCount])

\* dihedralAngles: one angle for each edge with exactly two faces whose
\* normals are not 0
dihedralAngleCount(pos, idx, m) ==
    Cardinality({k \in 1..Len(m.keys) :
        LET faces == m.get[m.keys[k]]
        IN  /\ Len(faces) = 2
            /\ normalSqOf(pos, idx, faces[1]) # 0
            /\ normalSqOf(pos, idx, faces[2]) # 0})

computeDihedralAngles(pos, idx, efm) ==
    LET counts == dihedralCountsFrom(pos, idx, efm, 1,
                      [sharpEdgeCount |-> 0, coplanarEdgeCount |-> 0])
    IN  [sharpEdgeCount |-> counts.sharpEdgeCount,
         coplanarEdgeCount |-> counts.coplanarEdgeCount,
         dihedralAngleStats |-> computeStats(dihedralAngleCount(pos, idx, efm))]

\* detectThinWalls: vertex v counts when a vertex v2 that is neither v nor
\* a corner of a triangle of v is at a distance d with 1e-20 < d^2 and
\* d^2 < (diagonal * 0.005)^2, diagonal = max(boundingBox.diagonal, 1e-6):
\*     d^2 < diagonalSq / 40000  <=>  40000 * d^2 < diagonalSq
\* (for the clamped diagonal the bound is 2.5e-17 and no d^2 >= 1 is below
\* it).  Such a v2 lies within one cell of v (cellSize is three times the
\* threshold), so the 27 cells that are searched hold it.
detectThinWalls(pos, idx, boundingBox) ==
    LET vertexCount   == Len(pos) \div 3
        triangleCount == Len(idx) \div 3
        neighborVerts(v) ==
            UNION {{At(idx, t * 3), At(idx, t * 3 + 1), At(idx, t * 3 + 2)} :
                      t \in adjacentTrisOf(idx, triangleCount, v)}
        isThin(v) ==
            \E v2 \in 0..(vertexCount - 1) :
                /\ v2 # v
                /\ v2 \notin neighborVerts(v)
                /\ LET distSq == NormSq(Sub(VertexAt(pos, v), VertexAt(pos, v2)))
                   IN  distSq > 0 /\ 40000 * distSq < boundingBox.diagonalSq
    IN  [count |-> Cardinality({v \in 0..(vertexCount - 1) : isThin(v)})]

(***************************************************************************)
(* detectSelfIntersections and the triangle-triangle test.                 *)
(* The distances of the corners to a plane are integers, so "> 1e-8" is    *)
(* "> 0", "< -1e-8" is "< 0" and "|d| < 1e-8" is "d = 0".  The points of   *)
(* an interval are rationals [num, den] with den > 0; two of them are      *)
(* equal or differ by far more than 1e-8.                                  *)
(***************************************************************************)
Rat(num, den) == IF den < 0 THEN [num |-> -num, den |-> -den]
                 ELSE [num |-> num, den |-> den]

RatLeq(p, q) == p.num * q.den <= q.num * p.den

RECURSIVE RatMin(_)
RatMin(points) ==
    IF Len(points) = 1 THEN points[1]
    ELSE LET rest == RatMin(Tail(points))
         IN  IF RatLeq(points[1], rest) THEN points[1] ELSE rest

RECURSIVE RatMax(_)
RatMax(points) ==
    IF Len(points) = 1 THEN points[1]
    ELSE LET rest == RatMax(Tail(points))
         IN  IF RatLeq(rest, points[1]) THEN points[1] ELSE rest

\* computeTriangleInterval(pa, pb, pc, da, db, dc), pc written pcc; null is
\* the record [null |-> TRUE]
computeTriangleInterval(pa, pb, pcc, da, db, dc) ==
    LET crossing(p, q, dp, dq) ==
            \* (dp > 0) !== (dq > 0) && |dp - dq| > 1e-10:
            \* t = dp / (dp - dq), the point is p + t * (q - p)
            IF (dp > 0) # (dq > 0) /\ dp # dq
            THEN <<Rat(p * (dp - dq) + dp * (q - p), dp - dq)>>
            ELSE <<>>
        onPlane(p, dp) == IF dp = 0 THEN <<Rat(p, 1)>> ELSE <<>>
        points == crossing(pa, pb, da, db) \o crossing(pb, pcc, db, dc)
                      \o crossing(pcc, pa, dc, da)
                      \o onPlane(pa, da) \o onPlane(pb, db) \o onPlane(pcc, dc)
    IN  IF Len(points) < 2 THEN [null |-> TRUE]
        ELSE [null |-> FALSE, min |-> RatMin(points), max |-> RatMax(points)]

\* t1 and t2 in (1e-8, 1 - 1e-8): the quotients of integers by cross
segmentsIntersect2D(a1, b1, a2, b2) ==
    LET d1x == b1[1] - a1[1]
        d1y == b1[2] - a1[2]
        d2x == b2[1] - a2[1]
        d2y == b2[2] - a2[2]
        cross == d1x * d2y - d1y * d2x
        dx == a2[1] - a1[1]
        dy == a2[2] - a1[2]
        n1 == dx * d2y - dy * d2x
        n2 == dx * d1y - dy * d1x
        inside(n) == IF cross > 0 THEN 0 < n /\ n < cross
                     ELSE cross < n /\ n < 0
    IN  cross # 0 /\ inside(n1) /\ inside(n2)

\* u >= 0 && v >= 0 && u + v < 1, u and v being quotients by denom >= 0
pointInTriangle2D(p, a, b, c) ==
    LET v0x == c[1] - a[1]
        v0y == c[2] - a[2]
        v1x == b[1] - a[1]
        v1y == b[2] - a[2]
        v2x == p[1] - a[1]
        v2y == p[2] - a[2]
        dot00 == v0x * v0x + v0y * v0y
        dot01 == v0x * v1x + v0y * v1y
        dot02 == v0x * v2x + v0y * v2y
        dot11 == v1x * v1x + v1y * v1y
        dot12 == v1x * v2x + v1y * v2y
        denom == dot00 * dot11 - dot01 * dot01
        u == dot11 * dot02 - dot01 * dot12
        v == dot00 * dot12 - dot01 * dot02
    IN  denom # 0 /\ u >= 0 /\ v >= 0 /\ u + v < denom

\* coplanarTrianglesOverlap: the triangles projected along the largest
\* component of the normal n of the first one
coplanarTrianglesOverlap(tri1, tri2, n) ==
    LET absX == Abs(n[1])
        absY == Abs(n[2])
        absZ == Abs(n[3])
        proj(q) == IF absZ >= absX /\ absZ >= absY THEN <<q[1], q[2]>>
                   ELSE IF absY >= absX THEN <<q[1], q[3]>>
                   ELSE <<q[2], q[3]>>
        t1 == <<proj(tri1[1]), proj(tri1[2]), proj(tri1[3])>>
        t2 == <<proj(tri2[1]), proj(tri2[2]), proj(tri2[3])>>
    IN  \/ \E i \in 0..2 : \E j \in 0..2 :
               segmentsIntersect2D(At(t1, i), At(t1, (i + 1) % 3),
                                   At(t2, j), At(t2, (j + 1) % 3))
        \/ pointInTriangle2D(t1[1], t2[1], t2[2], t2[3])
        \/ pointInTriangle2D(t2[1], t1[1], t1[2], t1[3])

trianglesIntersect(tri1, tri2) ==
    LET normal1 == Cross(Sub(tri1[2], tri1[1]), Sub(tri1[3], tri1[1]))
        normal2 == Cross(Sub(tri2[2], tri2[1]), Sub(tri2[3], tri2[1]))
        d1      == Dot(normal1, tri1[1])
        dist2   == <<Dot(normal1, tri2[1]) - d1, Dot(normal1, tri2[2]) - d1,
                     Dot(normal1, tri2[3]) - d1>>
        d2      == Dot(normal2, tri2[1])
        dist1   == <<Dot(normal2, tri1[1]) - d2, Dot(normal2, tri1[2]) - d2,
                     Dot(normal2, tri1[3]) - d2>>
        oneSide(d) == \/ d[1] > 0 /\ d[2] > 0 /\ d[3] > 0
                      \/ d[1] < 0 /\ d[2] < 0 /\ d[3] < 0
        dir     == Cross(normal1, normal2)
        absX    == Abs(dir[1])
        absY    == Abs(dir[2])
        absZ    == Abs(dir[3])
        axis    == IF absX >= absY /\ absX >= absZ THEN 1
                   ELSE IF absY >= absZ THEN 2 ELSE 3
        int1    == computeTriangleInterval(tri1[1][axis], tri1[2][axis],
                       tri1[3][axis], dist1[1], dist1[2], dist1[3])
        int2    == computeTriangleInterval(tri2[1][axis], tri2[2][axis],
                       tri2[3][axis], dist2[1], dist2[2], dist2[3])
    IN  IF oneSide(dist2) THEN FALSE
        ELSE IF oneSide(dist1) THEN FALSE
        ELSE IF dir = <<0, 0, 0>>
             THEN coplanarTrianglesOverlap(tri1, tri2, normal1)
        ELSE IF int1.null \/ int2.null THEN FALSE
        ELSE RatLeq(int2.min, int1.max) /\ RatLeq(int1.min, int2.max)

\* shared >= 2: the corners of b that are corners of a, counted per corner
trianglesAdjacent(a, b) ==
    LET setA == {a[1], a[2], a[3]}
    IN  Cardinality({k \in 1..3 : b[k] \in setA}) >= 2

TriangleIndices(idx, t) == <<At(idx, t * 3), At(idx, t * 3 + 1), At(idx, t * 3 + 2)>>

\* Math.floor(x / cellSize) for the grid of detectSelfIntersections:
\* cellSize = 2 * diagonal / sqrt(triangleCount / 2), so for diagonalSq > 0
\*     x / cellSize = sign(x) * sqrt(x^2 * triangleCount / (8 * diagonalSq)).
\* With diagonalSq = 0 all vertices are at one point and so in one cell.
selfIntersectionCell(x, triangleCount, diagonalSq) ==
    IF diagonalSq = 0 THEN x
    ELSE IF x >= 0 THEN Isqrt((x * x * triangleCount) \div (8 * diagonalSq))
    ELSE -(Isqrt((x * x * triangleCount - 1) \div (8 * diagonalSq)) + 1)

\* the cells that SpatialHashGrid.insert and query visit for triangle t:
\* on each axis, from the cell of the least to the cell of the largest
\* coordinate
triangleCellsOf(pos, idx, t, diagonalSq) ==
    LET p == TrianglePoints(pos, idx, t)
        triangleCount == Len(idx) \div 3
        lo(k) == selfIntersectionCell(Min2(p[1][k], Min2(p[2][k], p[3][k])),
                                      triangleCount, diagonalSq)
        hi(k) == selfIntersectionCell(Max2(p[1][k], Max2(p[2][k], p[3][k])),
                                      triangleCount, diagonalSq)
    IN  (lo(1)..hi(1)) \X (lo(2)..hi(2)) \X (lo(3)..hi(3))

detectSelfIntersections(pos, idx, boundingBox) ==
    LET triangleCount == Len(idx) \div 3
        candidates(t1) ==
            {t2 \in 0..(triangleCount - 1) :
                triangleCellsOf(pos, idx, t1, boundingBox.diagonalSq)
                    \cap triangleCellsOf(pos, idx, t2, boundingBox.diagonalSq) # {}}
    IN  [count |-> Cardinality(
            {pair \in (0..(triangleCount - 1)) \X (0..(triangleCount - 1)) :
                /\ pair[2] \in candidates(pair[1])
                /\ pair[2] > pair[1]
                /\ ~trianglesAdjacent(TriangleIndices(idx, pair[1]),
                                      TriangleIndices(idx, pair[2]))
                /\ trianglesIntersect(TrianglePoints(pos, idx, pair[1]),
                                      TrianglePoints(pos, idx, pair[2]))})]

(***************************************************************************)
(* detectCoincidentFaces.                                                  *)
(* With S the sum of the corners of a triangle (centroid = S / 3), n its   *)
(* normal, A = |n1|^2, B = |n2|^2, d = n1.n2, D = diagonalSq > 0 and       *)
(* T = triangleCount:                                                      *)
(*   normalizedDot >= 0.999     <=>  A*B - d^2 <= 0.001999 * A * B         *)
(*   centroidDist <= cellSize   <=>  T * |S1 - S2|^2 <= 90 * D             *)
(*   planeDist < diagonal*1e-5  <=>  10^10 * N^2 < 9 * A * D,              *)
(*                                   N = |n1.S2 - 3 * n1.p0|               *)
(* Two centroids at most cellSize apart lie in neighbouring cells, so the  *)
(* 27 cells that are searched hold every such pair.                        *)
(***************************************************************************)
cornerSumOf(pos, idx, t) ==
    LET p == TrianglePoints(pos, idx, t)
    IN  <<p[1][1] + p[2][1] + p[3][1], p[1][2] + p[2][2] + p[3][2],
          p[1][3] + p[2][3] + p[3][3]>>

isCoincidentPair(pos, idx, t1, t2, diagonalSq) ==
    LET triangleCount == Len(idx) \div 3
        i1 == TriangleIndices(idx, t1)
        i2 == TriangleIndices(idx, t2)
        n1 == computeFaceNormal(pos, i1[1], i1[2], i1[3])
        n2 == computeFaceNormal(pos, i2[1], i2[2], i2[3])
        a  == NormSq(n1)
        b  == NormSq(n2)
        s1 == cornerSumOf(pos, idx, t1)
        s2 == cornerSumOf(pos, idx, t2)
        n  == Abs(Dot(n1, s2) - 3 * Dot(n1, VertexAt(pos, i1[1])))
    IN  /\ {i1[1], i1[2], i1[3]} \cap {i2[1], i2[2], i2[3]} = {}
        /\ a # 0
        /\ b # 0
        /\ a * b - Dot(n1, n2) * Dot(n1, n2)
               <= (1999 * ((a * b) \div 1000)
                      + (1999 * ((a * b) % 1000)) \div 1000) \div 1000
        /\ triangleCount * NormSq(Sub(s1, s2)) <= 90 * diagonalSq
        /\ 100000 * n * n < (9 * a * diagonalSq + 99999) \div 100000

detectCoincidentFaces(pos, idx, boundingBox) ==
    LET triangleCount == Len(idx) \div 3
    IN  [count |-> Cardinality(
            {pair \in (0..(triangleCount - 1)) \X (0..(triangleCount - 1)) :
                /\ pair[2] > pair[1]
                /\ isCoincidentPair(pos, idx, pair[1], pair[2],
                                    boundingBox.diagonalSq)})]

(***************************************************************************)
(* computeMeshDiagnostics(positions, indices)                              *)
(* length is indices.length; idx holds the entries that are read.          *)
(***************************************************************************)
\* a variant of the guard record that reports 0 components and a winding
\* check that ran
capacityLimitedZero(pos, vertexCount, triangleCount) ==
    [vertexCount |-> vertexCount,
     triangleCount |-> triangleCount,
     edgeCount |-> -1,
     boundaryEdgeCount |-> -1,
     nonManifoldEdgeCount |-> -1,
     nonManifoldVertexCount |-> -1,
     connectedComponents |-> 0,
     eulerCharacteristic |-> -1,
     degenerateTriangleCount |-> -1,
     windingInconsistentEdgeCount |-> -1,
     windingConsistencyPercent |-> [num |-> -1, den |-> 1],
     windingCheckSkipped |-> FALSE,
     duplicateVertexCount |-> -1,
     tinyTriangleCount |-> -1,
     needleTriangleCount |-> -1,
     edgeLengthStats |-> Null,
     aspectRatioStats |-> Null,
     valenceDistribution |-> Null,
     dihedralAngleStats |-> Null,
     boundingBox |-> computeBoundingBox(pos),
     isolatedVertexCount |-> -1,
     sharpEdgeCount |-> -1,
     coplanarEdgeCount |-> -1,
     selfIntersectionCount |-> -1,
     tJunctionCount |-> -1,
     thinWallCount |-> -1,
     coincidentFaceCount |-> -1,
     isWatertight |-> FALSE,
     isManifold |-> FALSE,
     hasNonManifoldVertices |-> FALSE,
     hasConsistentWinding |-> FALSE]

\* the record returned by the size guard
capacityLimitedDiagnostics(pos, vertexCount, triangleCount) ==
    [vertexCount |-> vertexCount,
     triangleCount |-> triangleCount,
     edgeCount |-> -1,
     boundaryEdgeCount |-> -1,
     nonManifoldEdgeCount |-> -1,
     nonManifoldVertexCount |-> -1,
     connectedComponents |-> -1,
     eulerCharacteristic |-> -1,
     degenerateTriangleCount |-> -1,
     windingInconsistentEdgeCount |-> -1,
     windingConsistencyPercent |-> [num |-> -1, den |-> 1],
     windingCheckSkipped |-> TRUE,
     duplicateVertexCount |-> -1,
     tinyTriangleCount |-> -1,
     needleTriangleCount |-> -1,
     edgeLengthStats |-> Null,
     aspectRatioStats |-> Null,
     valenceDistribution |-> Null,
     dihedralAngleStats |-> Null,
     boundingBox |-> computeBoundingBox(pos),
     isolatedVertexCount |-> -1,
     sharpEdgeCount |-> -1,
     coplanarEdgeCount |-> -1,
     selfIntersectionCount |-> -1,
     tJunctionCount |-> -1,
     thinWallCount |-> -1,
     coincidentFaceCount |-> -1,
     isWatertight |-> FALSE,
     isManifold |-> FALSE,
     hasNonManifoldVertices |-> FALSE,
     hasConsistentWinding |-> FALSE]

\* a variant with the threshold 100
hasConsistentWindingAll(windingResult) ==
    IF windingResult.skipped THEN FALSE
    ELSE windingResult.consistencyPercent.num
             >= 100 * windingResult.consistencyPercent.den

\* a variant with the threshold 50
hasConsistentWindingHalf(windingResult) ==
    IF windingResult.skipped THEN FALSE
    ELSE 2 * windingResult.consistencyPercent.num
             >= 100 * windingResult.consistencyPercent.den

\* windingResult.skipped ? false : windingResult.consistencyPercent >= 99.5,
\* consistencyPercent >= 99.5  <=>  2*num >= 199*den
hasConsistentWindingOf(windingResult) ==
    IF windingResult.skipped THEN FALSE
    ELSE 2 * windingResult.consistencyPercent.num
             >= 199 * windingResult.consistencyPercent.den

\* a variant that accepts one boundary edge
isWatertightUpToOne(boundaryEdgeCount) == boundaryEdgeCount <= 1

\* isWatertight: boundaryEdgeCount === 0
isWatertightOf(boundaryEdgeCount) == boundaryEdgeCount = 0

\* isManifold: nonManifoldEdgeCount === 0
isManifoldOf(nonManifoldEdgeCount) == nonManifoldEdgeCount = 0

\* what computeMeshDiagnostics gives when the exception leaves it
RangeErrorThrown == [error |-> "RangeError"]

\* the fields of the record that are computed from the index array and the
\* number of vertices alone
topologyDiagnostics(idx, vertexCount, efm) ==
    LET triangleCount == Len(idx) \div 3
        edgeCount     == Len(efm.keys)
        classes       == countEdgeClasses(efm)
        usedVertices  == usedVerticesOf(idx, vertexCount)
        connectedComponents == connectedComponentsOf(idx, vertexCount)
        eulerCharacteristic == Len(usedVertices) - edgeCount + triangleCount
        nonManifoldVertexCount == detectNonManifoldVertices(idx)
        windingResult == detectWindingConsistency(idx, Len(idx))
        isolatedVertexCount == vertexCount - Len(usedVertices)
    IN  IF unionFindThrows(idx, vertexCount) THEN RangeErrorThrown
        ELSE
        [vertexCount |-> vertexCount,
         triangleCount |-> triangleCount,
         edgeCount |-> edgeCount,
         boundaryEdgeCount |-> classes.boundaryEdgeCount,
         nonManifoldEdgeCount |-> classes.nonManifoldEdgeCount,
         nonManifoldVertexCount |-> nonManifoldVertexCount,
         connectedComponents |-> connectedComponents,
         eulerCharacteristic |-> eulerCharacteristic,
         windingInconsistentEdgeCount |-> windingResult.inconsistentEdgeCount,
         windingConsistencyPercent |-> windingResult.consistencyPercent,
         windingCheckSkipped |-> windingResult.skipped,
         valenceDistribution |-> computeValenceDistribution(idx, vertexCount),
         isolatedVertexCount |-> isolatedVertexCount,
         isWatertight |-> isWatertightOf(classes.boundaryEdgeCount),
         isManifold |-> isManifoldOf(classes.nonManifoldEdgeCount),
         hasNonManifoldVertices |-> nonManifoldVertexCount > 0,
         hasConsistentWinding |-> hasConsistentWindingOf(windingResult)]

fullDiagnostics(pos, idx, efm) ==
    LET vertexCount   == Len(pos) \div 3
        topology      == topologyDiagnostics(idx, vertexCount, efm)
        boundingBox   == computeBoundingBox(pos)
        dihedralResult == computeDihedralAngles(pos, idx, efm)
        selfIntersectionResult == detectSelfIntersections(pos, idx, boundingBox)
        tJunctionResult == detectTJunctions(pos, idx, boundingBox)
        thinWallResult == detectThinWalls(pos, idx, boundingBox)
        coincidentFaceResult == detectCoincidentFaces(pos, idx, boundingBox)
    IN  IF topology = RangeErrorThrown THEN RangeErrorThrown
        ELSE
        [vertexCount |-> topology.vertexCount,
         triangleCount |-> topology.triangleCount,
         edgeCount |-> topology.edgeCount,
         boundaryEdgeCount |-> topology.boundaryEdgeCount,
         nonManifoldEdgeCount |-> topology.nonManifoldEdgeCount,
         nonManifoldVertexCount |-> topology.nonManifoldVertexCount,
         connectedComponents |-> topology.connectedComponents,
         eulerCharacteristic |-> topology.eulerCharacteristic,
         degenerateTriangleCount |-> degenerateTriangleCountOf(pos, idx),
         windingInconsistentEdgeCount |-> topology.windingInconsistentEdgeCount,
         windingConsistencyPercent |-> topology.windingConsistencyPercent,
         windingCheckSkipped |-> topology.windingCheckSkipped,
         duplicateVertexCount |-> detectDuplicateVertices(pos),
         tinyTriangleCount |-> tinyTriangleCountOf(pos, idx),
         needleTriangleCount |-> needleTriangleCountOf(pos, idx),
         edgeLengthStats |-> computeStats(3 * topology.triangleCount),
         aspectRatioStats |-> computeStats(finiteAspectRatioCount(pos, idx)),
         valenceDistribution |-> topology.valenceDistribution,
         dihedralAngleStats |-> dihedralResult.dihedralAngleStats,
         boundingBox |-> boundingBox,
         isolatedVertexCount |-> topology.isolatedVertexCount,
         sharpEdgeCount |-> dihedralResult.sharpEdgeCount,
         coplanarEdgeCount |-> dihedralResult.coplanarEdgeCount,
         selfIntersectionCount |-> selfIntersectionResult.count,
         tJunctionCount |-> tJunctionResult.count,
         thinWallCount |-> thinWallResult.count,
         coincidentFaceCount |-> coincidentFaceResult.count,
         isWatertight |-> topology.isWatertight,
         isManifold |-> topology.isManifold,
         hasNonManifoldVertices |-> topology.hasNonManifoldVertices,
         hasConsistentWinding |-> topology.hasConsistentWinding]

(***************************************************************************)
(* findIntersectingTrianglePairs and trianglesIntersectSimple of the       *)
(* overlay.                                                                *)
(***************************************************************************)
\* the two plane tests of trianglesIntersect and nothing after them
trianglesIntersectSimple(pos, idx, t1, t2) ==
    LET tri1    == TrianglePoints(pos, idx, t1)
        tri2    == TrianglePoints(pos, idx, t2)
        normal1 == Cross(Sub(tri1[2], tri1[1]), Sub(tri1[3], tri1[1]))
        d1      == Dot(normal1, tri1[1])
        dist2   == <<Dot(normal1, tri2[1]) - d1, Dot(normal1, tri2[2]) - d1,
                     Dot(normal1, tri2[3]) - d1>>
        normal2 == Cross(Sub(tri2[2], tri2[1]), Sub(tri2[3], tri2[1]))
        d2      == Dot(normal2, tri2[1])
        dist1   == <<Dot(normal2, tri1[1]) - d2, Dot(normal2, tri1[2]) - d2,
                     Dot(normal2, tri1[3]) - d2>>
        oneSide(d) == \/ d[1] > 0 /\ d[2] > 0 /\ d[3] > 0
                      \/ d[1] < 0 /\ d[2] < 0 /\ d[3] < 0
    IN  IF oneSide(dist2) THEN FALSE
        ELSE IF oneSide(dist1) THEN FALSE
        ELSE TRUE

\* estimateCellSize: 2 * diagonal / sqrt(triangleCount / 2) on the bounding
\* box of the positions, the same cells as selfIntersectionCell (with
\* diagonal 0 the cell size is 1e-6 and all vertices are in one cell)
estimateCellOf(x, triangleCount, diagonalSq) ==
    IF diagonalSq = 0 THEN x
    ELSE IF x >= 0 THEN Isqrt((x * x * triangleCount) \div (8 * diagonalSq))
    ELSE -(Isqrt((x * x * triangleCount - 1) \div (8 * diagonalSq)) + 1)

\* the cells of triangle t in the order of the loops over cx, cy, cz
overlayCellsOf(pos, idx, t, diagonalSq) ==
    LET p == TrianglePoints(pos, idx, t)
        triangleCount == Len(idx) \div 3
        lo(k) == estimateCellOf(Min2(p[1][k], Min2(p[2][k], p[3][k])),
                                triangleCount, diagonalSq)
        hi(k) == estimateCellOf(Max2(p[1][k], Max2(p[2][k], p[3][k])),
                                triangleCount, diagonalSq)
        ny == hi(2) - lo(2) + 1
        nz == hi(3) - lo(3) + 1
    IN  [i \in 1..((hi(1) - lo(1) + 1) * ny * nz) |->
            <<lo(1) + ((i - 1) \div (ny * nz)),
              lo(2) + (((i - 1) \div nz) % ny),
              lo(3) + ((i - 1) % nz)>>]

\* the loop over the candidates t2 of one cell of t1: a pair is examined
\* once (checked), skipped when the triangles share two corners, and kept
\* when trianglesIntersectSimple holds
RECURSIVE intersectingPairsInCell(_, _, _, _, _, _, _)
intersectingPairsInCell(pos, idx, diagonalSq, t1, cell, t2, acc) ==
    IF t2 >= Len(idx) \div 3 THEN acc
    ELSE IF \/ cell \notin Range(overlayCellsOf(pos, idx, t2, diagonalSq))
            \/ t2 <= t1
            \/ <<t1, t2>> \in acc.checked
         THEN intersectingPairsInCell(pos, idx, diagonalSq, t1, cell, t2 + 1, acc)
         ELSE intersectingPairsInCell(pos, idx, diagonalSq, t1, cell, t2 + 1,
                  [checked |-> acc.checked \cup {<<t1, t2>>},
                   pairs |->
                       IF /\ ~trianglesAdjacent(TriangleIndices(idx, t1),
                                                TriangleIndices(idx, t2))
                          /\ trianglesIntersectSimple(pos, idx, t1, t2)
                       THEN Append(acc.pairs, <<t1, t2>>)
                       ELSE acc.pairs])

RECURSIVE intersectingPairsFrom(_, _, _, _, _, _)
intersectingPairsFrom(pos, idx, diagonalSq, t1, c, acc) ==
    IF t1 >= Len(idx) \div 3 THEN acc.pairs
    ELSE LET cells == overlayCellsOf(pos, idx, t1, diagonalSq)
         IN  IF c > Len(cells)
             THEN intersectingPairsFrom(pos, idx, diagonalSq, t1 + 1, 1, acc)
             ELSE intersectingPairsFrom(pos, idx, diagonalSq, t1, c + 1,
                      intersectingPairsInCell(pos, idx, diagonalSq, t1,
                                              cells[c], 0, acc))

findIntersectingTrianglePairs(pos, idx) ==
    intersectingPairsFrom(pos, idx, computeBoundingBox(pos).diagonalSq, 0, 1,
                          [checked |-> {}, pairs |-> <<>>])

\* the centroid pushed for a pair: the mean of the six corners.  The entry
\* kept here is the sum of the six corners, six times the centroid.
RECURSIVE selfIntersectionCentroidsFrom(_, _, _, _, _)
selfIntersectionCentroidsFrom(pos, idx, pairs, k, out) ==
    IF k > Len(pairs) THEN out
    ELSE LET s1 == cornerSumOf(pos, idx, pairs[k][1])
             s2 == cornerSumOf(pos, idx, pairs[k][2])
         IN  selfIntersectionCentroidsFrom(pos, idx, pairs, k + 1,
                 out \o <<s1[1] + s2[1], s1[2] + s2[2], s1[3] + s2[3]>>)

(***************************************************************************)
(* extractProblemGeometry(positions, indices, diagnostics)                 *)
(***************************************************************************)
\* the loop over edgeFaceMap.entries(): six coordinates per qualifying edge
RECURSIVE edgePositionsFrom(_, _, _, _)
edgePositionsFrom(pos, m, k, acc) ==
    IF k > Len(m.keys) THEN acc
    ELSE LET edgeKey == m.keys[k]
             faces   == m.get[edgeKey]
             v       == decodeEdgeKey(edgeKey)
             segment == VertexAt(pos, v[1]) \o VertexAt(pos, v[2])
         IN  edgePositionsFrom(pos, m, k + 1,
                 IF Len(faces) = 1
                 THEN [acc EXCEPT !.boundaryEdges = @ \o segment]
                 ELSE IF Len(faces) > 2
                      THEN [acc EXCEPT !.nonManifoldEdges = @ \o segment]
                      ELSE acc)

RECURSIVE vertexPositionsOf(_, _, _, _)
vertexPositionsOf(pos, vs, k, out) ==
    IF k > Len(vs) THEN out
    ELSE vertexPositionsOf(pos, vs, k + 1, out \o VertexAt(pos, vs[k]))

extractProblemGeometry(pos, idx, diag, efm) ==
    LET edges == edgePositionsFrom(pos, efm, 1,
                     [boundaryEdges |-> <<>>, nonManifoldEdges |-> <<>>])
    IN  [boundaryEdges |-> edges.boundaryEdges,
         nonManifoldEdges |-> edges.nonManifoldEdges,
         nonManifoldVertices |-> nonManifoldVertexPositions(pos, idx, diag),
         selfIntersectionCentroids |->
             IF diag.selfIntersectionCount > 0
             THEN selfIntersectionCentroidsFrom(pos, idx,
                      findIntersectingTrianglePairs(pos, idx), 1, <<>>)
             ELSE <<>>,
         tJunctionVertices |->
             IF diag.tJunctionCount > 0
             THEN vertexPositionsOf(pos, findTJunctionVertices(pos, idx, diag),
                                    1, <<>>)
             ELSE <<>>]

(***************************************************************************)
(* The inputs.                                                             *)
(* A mesh takes its vertices from one of the layouts below: the first V    *)
(* points of the layout, for any V up to the length MaxV of a layout.       *)
(***************************************************************************)
\* points on a line (mid point and quarter point of the edge 0-1), in a plane
\* and off it
LayoutLine ==
    << <<0, 0, 0>>, <<4, 0, 0>>, <<0, 4, 0>>, <<2, 0, 0>>, <<1, 0, 0>> >>

\* the corners of a tetrahedron and a repeated position
LayoutSolid ==
    << <<0, 0, 0>>, <<2, 0, 0>>, <<0, 2, 0>>, <<0, 0, 2>>, <<2, 0, 0>> >>

\* a large triangle, a sliver of area 1/2 with a side of length sqrt(17)
\* and points around them
LayoutSliver ==
    << <<0, 0, 0>>, <<16, 0, 0>>, <<0, 8, 0>>, <<4, 1, 0>>, <<3, 1, 0>> >>

\* all vertices at one point: a bounding box of diagonal 0
LayoutPoint ==
    << <<1, 1, 1>>, <<1, 1, 1>>, <<1, 1, 1>>, <<1, 1, 1>>, <<1, 1, 1>> >>

Layouts == {LayoutLine, LayoutSolid, LayoutSliver, LayoutPoint}

\* the number of points of a layout, the same for all of them: the largest
\* number of vertices of an input mesh
MaxV == Len(LayoutLine)

RECURSIVE Flatten(_, _)
Flatten(points, n) ==
    IF n = 0 THEN <<>> ELSE Flatten(points, n - 1) \o points[n]

VertexCount == Len(positions) \div 3
TriangleCount == IndicesLength(indices, extraTriangles) \div 3

NoDiagnostics == [vertexCount |-> -2]
NoGeometry == [boundaryEdges |-> <<-2>>]

\* no document is loaded
NoDocument ==
    /\ document = <<>>
    /\ allPositions = <<>>
    /\ allIndices = <<>>

\* useGlbAnalyzer after its first render: useState and useRef
InitHook ==
    /\ state = [status |-> "idle", result |-> Null, error |-> Null,
                modelUrl |-> Null]
    /\ objectUrlRef = Null
    /\ glbObjectUrl = Null
    /\ requestIdRef = 0
    /\ workerRef = Null
    /\ mounted = TRUE
    /\ liveUrls = {}
    /\ calls = <<>>

\* no worker yet: it is created by getWorker
InitWorker ==
    /\ requests = <<>>
    /\ tasks = {}
    /\ posted = <<>>
    /\ sent = <<>>

NoQuality == [score |-> -2]

Init ==
    /\ \E layout \in Layouts : \E n \in 0..MaxV : positions = Flatten(layout, n)
    /\ indices = <<>>
    /\ extraTriangles = 0
    /\ pc = "input"
    /\ diagnostics = NoDiagnostics
    /\ edgeFaceMap = EmptyMap
    /\ problemGeometry = NoGeometry
    /\ overlayEdgeFaceMap = EmptyMap
    /\ NoDocument
    /\ InitHook
    /\ InitWorker
    /\ quality = NoQuality

\* the last triangle of the index array, as a triple
LastTriangle ==
    <<indices[Len(indices) - 2], indices[Len(indices) - 1], indices[Len(indices)]>>

Less3(a, b) ==
    \/ a[1] < b[1]
    \/ a[1] = b[1] /\ a[2] < b[2]
    \/ a[1] = b[1] /\ a[2] = b[2] /\ a[3] < b[3]

\* a triangle with any three valid indices, repeated ones included; the
\* triangles of a mesh in non-decreasing order, so that a triangle can repeat
AddTriangle ==
    /\ pc = "input"
    /\ extraTriangles = 0
    /\ VertexCount <= SmallV
    /\ Len(indices) < 3 * MaxT
    /\ \E i0, i1, i2 \in 0..(VertexCount - 1) :
           /\ Len(indices) > 0 => ~Less3(<<i0, i1, i2>>, LastTriangle)
           /\ indices' = indices \o <<i0, i1, i2>>
    /\ UNCHANGED <<positions, extraTriangles, pc, diagnostics, edgeFaceMap,
                   problemGeometry, overlayEdgeFaceMap>>
    /\ UNCHANGED <<mergeVars, hookVars, workerVars, quality>>

\* a face i0 < i1 < i2, the faces of a mesh in increasing order
AddFace ==
    /\ pc = "input"
    /\ extraTriangles = 0
    /\ Len(indices) < 3 * MaxFaces
    /\ \E i0, i1, i2 \in 0..(VertexCount - 1) :
           /\ i0 < i1
           /\ i1 < i2
           /\ Len(indices) > 0 =>
                  /\ LastTriangle[1] < LastTriangle[2]
                  /\ LastTriangle[2] < LastTriangle[3]
                  /\ Less3(LastTriangle, <<i0, i1, i2>>)
           /\ indices' = indices \o <<i0, i1, i2>>
    /\ UNCHANGED <<positions, extraTriangles, pc, diagnostics, edgeFaceMap,
                   problemGeometry, overlayEdgeFaceMap>>
    /\ UNCHANGED <<mergeVars, hookVars, workerVars, quality>>

\* an index array of more than MAX_SAFE_TRIANGLES triangles, none of them
\* written out
Oversize ==
    /\ pc = "input"
    /\ extraTriangles = 0
    /\ indices = <<>>
    /\ \E k \in 1..2 : extraTriangles' = MAX_SAFE_TRIANGLES + k - Len(indices) \div 3
    /\ UNCHANGED <<positions, indices, pc, diagnostics, edgeFaceMap,
                   problemGeometry, overlayEdgeFaceMap>>
    /\ UNCHANGED <<mergeVars, hookVars, workerVars, quality>>

\* diagnostics = computeMeshDiagnostics(positions, indices)
Analyze ==
    /\ pc = "input"
    /\ pc' = "analyzed"
    /\ IF TriangleCount > MAX_SAFE_TRIANGLES
       THEN /\ diagnostics' =
                   capacityLimitedDiagnostics(positions, VertexCount, TriangleCount)
            /\ edgeFaceMap' = EmptyMap
       ELSE /\ edgeFaceMap' = diagnosticsEdgeFaceMap(indices, TriangleCount)
            /\ diagnostics' = fullDiagnostics(positions, indices, edgeFaceMap')
    /\ UNCHANGED <<positions, indices, extraTriangles, problemGeometry,
                   overlayEdgeFaceMap>>
    /\ UNCHANGED <<mergeVars, hookVars, workerVars, quality>>

\* problemGeometry = extractProblemGeometry(positions, indices, diagnostics)
Extract ==
    /\ pc = "analyzed"
    /\ extraTriangles = 0
    /\ pc' = "extracted"
    /\ overlayEdgeFaceMap' = buildEdgeFaceMap(indices, Len(indices) \div 3)
    /\ problemGeometry' =
           extractProblemGeometry(positions, indices, diagnostics,
                                  overlayEdgeFaceMap')
    /\ UNCHANGED <<positions, indices, extraTriangles, diagnostics, edgeFaceMap>>
    /\ UNCHANGED <<mergeVars, hookVars, workerVars, quality>>

Next == AddTriangle \/ AddFace \/ Oversize \/ Analyze \/ Extract

Spec == Init /\ [][Next]_vars

(***************************************************************************)
(* Reference notions, stated on the input mesh and not on the data the     *)
(* passes build.                                                           *)
(***************************************************************************)
Analyzed == pc \in {"analyzed", "extracted"}
BelowCap == TriangleCount <= MAX_SAFE_TRIANGLES
Triangles == 0..(Len(indices) \div 3 - 1)

\* vertex k (0, 1, 2) of triangle t
Corner(t, k) == At(indices, 3 * t + k)

\* the undirected edge of side k of triangle t, as a set of end points
SideEdge(t, k) == {Corner(t, k), Corner(t, (k + 1) % 3)}

Sides == Triangles \X (0..2)

MeshEdges == {SideEdge(sd[1], sd[2]) : sd \in Sides}

\* number of triangle sides that lie on edge e
Incidence(e) == Cardinality({sd \in Sides : SideEdge(sd[1], sd[2]) = e})

KeyOfEdge(e) ==
    LET a == CHOOSE x \in e : \A y \in e : x <= y
        b == CHOOSE x \in e : \A y \in e : y <= x
    IN  KeyNumber(a, b)

Occurrences(seq, x) == Cardinality({i \in 1..Len(seq) : seq[i] = x})

UsedVertexSet == Range(indices)

\* vertices joined by a chain of triangles
RECURSIVE ReachableFrom(_)
ReachableFrom(S) ==
    LET step == S \cup {Corner(t, k) : t \in {u \in Triangles :
                            \E j \in 0..2 : Corner(u, j) \in S}, k \in 0..2}
    IN  IF step = S THEN S ELSE ReachableFrom(step)

ComponentSets == {ReachableFrom({v}) : v \in UsedVertexSet}

\* number of sides that run from a to b
Traversals(a, b) ==
    Cardinality({sd \in Sides : /\ Corner(sd[1], sd[2]) = a
                                /\ Corner(sd[1], (sd[2] + 1) % 3) = b})

\* the edges the winding pass treats as manifold: count(a->b) + count(b->a) = 2
WindingManifoldEdges ==
    {e \in MeshEdges :
        \E a \in e : \E b \in e :
            /\ e = {a, b}
            /\ Traversals(a, b) + Traversals(b, a) = 2}

WindingInconsistentEdges ==
    {e \in WindingManifoldEdges :
        \E a \in e : \E b \in e : e = {a, b} /\ Traversals(a, b) # 1}

(***************************************************************************)
(* Claims.                                                                 *)
(***************************************************************************)
\* the face list of edge e in map m (empty when e has no entry)
FacesOf(m, e) == IF MapHas(m, KeyOfEdge(e)) THEN m.get[KeyOfEdge(e)] ELSE <<>>

\* every key of m is the key of an edge of the mesh
KeysAreMeshEdges(m) == Range(m.keys) = {KeyOfEdge(e) : e \in MeshEdges}

\* each of the three edges of t lists t exactly once, no other edge lists t
OnceEach(m) ==
    /\ KeysAreMeshEdges(m)
    /\ \A t \in Triangles : \A e \in MeshEdges :
           Occurrences(FacesOf(m, e), t) =
               IF \E k \in 0..2 : SideEdge(t, k) = e THEN 1 ELSE 0

\* C2: after the edge-face map is built, every triangle t = (i0,i1,i2) is
\* listed exactly once by each of its three edges {i0,i1}, {i1,i2}, {i2,i0}
\* and by no other edge, in the map of computeMeshDiagnostics and in the map
\* of buildEdgeFaceMap.
C2_OnceEach ==
    /\ (Analyzed /\ BelowCap) => OnceEach(edgeFaceMap)
    /\ pc = "extracted" => OnceEach(overlayEdgeFaceMap)

\* t is listed by edge e once per side of t that lies on e
OncePerSide(m) ==
    /\ KeysAreMeshEdges(m)
    /\ \A t \in Triangles : \A e \in MeshEdges :
           Occurrences(FacesOf(m, e), t) =
               Cardinality({k \in 0..2 : SideEdge(t, k) = e})

\* what both maps do hold: a triangle is appended to the face list of an
\* edge once for each of its three sides (i0,i1), (i1,i2), (i2,i0) that is
\* this edge, and to no other list
FaceListsPerSide ==
    /\ (Analyzed /\ BelowCap) => OncePerSide(edgeFaceMap)
    /\ pc = "extracted" => OncePerSide(overlayEdgeFaceMap)

C4_Euler ==
    (Analyzed /\ BelowCap) =>
        diagnostics.eulerCharacteristic =
            Cardinality(UsedVertexSet) - diagnostics.edgeCount
                + diagnostics.triangleCount

\* a mesh with triangles and with a vertex no triangle refers to
C4_Witness ==
    /\ Analyzed /\ BelowCap
    /\ diagnostics.triangleCount >= 2
    /\ Cardinality(UsedVertexSet) < VertexCount

\* C5: below the cap connectedComponents is the number of connected
\* components of the graph on the used vertices in which two vertices are
\* joined when a triangle has both; unused vertices add nothing.
C5_Components ==
    (Analyzed /\ BelowCap) =>
        diagnostics.connectedComponents = Cardinality(ComponentSets)

\* a mesh of two triangles in two components
C5_Witness ==
    /\ Analyzed /\ BelowCap
    /\ diagnostics.triangleCount = 2
    /\ diagnostics.connectedComponents = 2

\* C6: in every record, the capacity-limited one included, isWatertight is
\* true exactly when boundaryEdgeCount = 0 and isManifold exactly when
\* nonManifoldEdgeCount = 0.
C6_DerivedFlags ==
    Analyzed =>
        /\ diagnostics.isWatertight <=> (diagnostics.boundaryEdgeCount = 0)
        /\ diagnostics.isManifold <=> (diagnostics.nonManifoldEdgeCount = 0)

\* a closed mesh: watertight and manifold
C6_Witness ==
    /\ Analyzed
    /\ diagnostics.triangleCount > 0
    /\ diagnostics.isWatertight
    /\ diagnostics.isManifold

\* C7: in every record hasConsistentWinding is true exactly when
\* windingCheckSkipped is false and windingConsistencyPercent >= 99.5.
C7_ConsistentWinding ==
    Analyzed =>
        (diagnostics.hasConsistentWinding <=>
            /\ ~diagnostics.windingCheckSkipped
            /\ 2 * diagnostics.windingConsistencyPercent.num
                   >= 199 * diagnostics.windingConsistencyPercent.den)

\* a record below 99.5 percent with at least one consistent edge
C7_Witness ==
    /\ Analyzed
    /\ ~diagnostics.windingCheckSkipped
    /\ diagnostics.windingConsistencyPercent.num > 0
    /\ ~diagnostics.hasConsistentWinding

\* C10: below the cap windingConsistencyPercent = 100*(manifold -
\* inconsistent)/manifold over the edges with count(a->b) + count(b->a) = 2,
\* or 100 when there is none; it lies in [0,100]; and a percent of 100
\* implies windingInconsistentEdgeCount = 0.
C10_WindingPercent ==
    (Analyzed /\ BelowCap) =>
        LET manifold     == Cardinality(WindingManifoldEdges)
            inconsistent == Cardinality(WindingInconsistentEdges)
            percent      == diagnostics.windingConsistencyPercent
        IN  /\ percent.den > 0
            /\ IF manifold = 0 THEN percent.num = 100 * percent.den
               ELSE percent.num * manifold
                        = 100 * (manifold - inconsistent) * percent.den
            /\ percent.num >= 0
            /\ percent.num <= 100 * percent.den
            /\ percent.num = 100 * percent.den =>
                   diagnostics.windingInconsistentEdgeCount = 0

\* a mesh with consistent and inconsistent manifold edges
C10_Witness ==
    /\ Analyzed /\ BelowCap
    /\ diagnostics.windingInconsistentEdgeCount > 0
    /\ diagnostics.windingConsistencyPercent.num > 0

\* the bounding box of the positions, from the sets of coordinates
CoordinateSet(k) == {At(positions, v * 3 + k) : v \in 0..(VertexCount - 1)}
Least(S) == CHOOSE x \in S : \A y \in S : x <= y
Greatest(S) == CHOOSE x \in S : \A y \in S : y <= x
BoxOfPositions ==
    IF VertexCount = 0
    THEN [min |-> <<0, 0, 0>>, max |-> <<0, 0, 0>>, size |-> <<0, 0, 0>>]
    ELSE [min |-> <<Least(CoordinateSet(0)), Least(CoordinateSet(1)),
                    Least(CoordinateSet(2))>>,
          max |-> <<Greatest(CoordinateSet(0)), Greatest(CoordinateSet(1)),
                    Greatest(CoordinateSet(2))>>,
          size |-> <<Greatest(CoordinateSet(0)) - Least(CoordinateSet(0)),
                     Greatest(CoordinateSet(1)) - Least(CoordinateSet(1)),
                     Greatest(CoordinateSet(2)) - Least(CoordinateSet(2))>>]

\* the count fields of the record other than eulerCharacteristic
CountsButEuler ==
    <<diagnostics.edgeCount, diagnostics.boundaryEdgeCount,
      diagnostics.nonManifoldEdgeCount, diagnostics.nonManifoldVertexCount,
      diagnostics.connectedComponents, diagnostics.degenerateTriangleCount,
      diagnostics.windingInconsistentEdgeCount, diagnostics.duplicateVertexCount,
      diagnostics.tinyTriangleCount, diagnostics.needleTriangleCount,
      diagnostics.isolatedVertexCount, diagnostics.sharpEdgeCount,
      diagnostics.coplanarEdgeCount, diagnostics.selfIntersectionCount,
      diagnostics.tJunctionCount, diagnostics.thinWallCount,
      diagnostics.coincidentFaceCount>>

\* C8: above the cap floor(2^24 / 3) = 5592405 the record carries the real
\* vertexCount, triangleCount and bounding box, every other count and
\* windingConsistencyPercent are -1, windingCheckSkipped is true, the four
\* derived booleans are false and no other pass has run (no edge-face map
\* was built); at or below the cap windingCheckSkipped is false.
C8_CapacityLimited ==
    /\ MAX_SAFE_TRIANGLES = 5592405
    /\ Analyzed =>
           IF TriangleCount > 5592405
           THEN /\ diagnostics.vertexCount = VertexCount
                /\ diagnostics.triangleCount = TriangleCount
                /\ diagnostics.boundingBox.min = BoxOfPositions.min
                /\ diagnostics.boundingBox.max = BoxOfPositions.max
                /\ diagnostics.boundingBox.size = BoxOfPositions.size
                /\ diagnostics.boundingBox.diagonalSq = NormSq(BoxOfPositions.size)
                /\ \A k \in 1..Len(CountsButEuler) : CountsButEuler[k] = -1
                /\ diagnostics.eulerCharacteristic = -1
                /\ diagnostics.windingConsistencyPercent.num
                       = -diagnostics.windingConsistencyPercent.den
                /\ diagnostics.windingCheckSkipped
                /\ ~diagnostics.isWatertight
                /\ ~diagnostics.isManifold
                /\ ~diagnostics.hasNonManifoldVertices
                /\ ~diagnostics.hasConsistentWinding
                /\ edgeFaceMap = EmptyMap
           ELSE ~diagnostics.windingCheckSkipped

\* a mesh of one triangle more than the cap, with a bounding box of
\* positive diagonal
C8_Witness ==
    /\ Analyzed
    /\ TriangleCount = 5592406
    /\ diagnostics.windingCheckSkipped
    /\ diagnostics.boundingBox.diagonalSq > 0

\* C9 (original statement): below the cap none of the eighteen count fields
\* of the record, eulerCharacteristic among them, equals -1.
C9_NoMinusOne ==
    (Analyzed /\ BelowCap) =>
        /\ \A k \in 1..Len(CountsButEuler) : CountsButEuler[k] # -1
        /\ diagnostics.eulerCharacteristic # -1

\* C9 (amended): below the cap none of the count fields other than
\* eulerCharacteristic equals -1, each of them is 0 or more;
\* eulerCharacteristic is used vertices - edges + triangles and can be -1.
C9_NoMinusOneButEuler ==
    (Analyzed /\ BelowCap) =>
        \A k \in 1..Len(CountsButEuler) : CountsButEuler[k] >= 0

\* a mesh below the cap, with edges, whose eulerCharacteristic is -1
C9_Witness ==
    /\ Analyzed /\ BelowCap
    /\ diagnostics.eulerCharacteristic = -1
    /\ diagnostics.edgeCount > 0

\* C1 (as stated): the overlay array lengths match the counts of the
\* diagnostics computed for the same mesh: boundaryEdges has 6 numbers per
\* boundary edge, nonManifoldEdges 6 per non-manifold edge,
\* nonManifoldVertices 3 per non-manifold vertex and tJunctionVertices 3 per
\* T-junction.
C1_OverlayLengths ==
    pc = "extracted" =>
        /\ Len(problemGeometry.boundaryEdges) = 6 * diagnostics.boundaryEdgeCount
        /\ Len(problemGeometry.nonManifoldEdges)
               = 6 * diagnostics.nonManifoldEdgeCount
        /\ Len(problemGeometry.nonManifoldVertices)
               = 3 * diagnostics.nonManifoldVertexCount
        /\ Len(problemGeometry.tJunctionVertices) = 3 * diagnostics.tJunctionCount

(***************************************************************************)
(* Orders of iteration and of the triangles.                                *)
(***************************************************************************)
Reverse(s) == [i \in 1..Len(s) |-> s[Len(s) + 1 - i]]

Rotate(s, k) == [i \in 1..Len(s) |-> s[((i + k - 1) % Len(s)) + 1]]

Swap(s, a, b) == [i \in 1..Len(s) |-> IF i = a THEN s[b]
                                      ELSE IF i = b THEN s[a] ELSE s[i]]

\* the order s, its reversal, its rotations and s with two entries exchanged
OrdersOf(s) ==
    {s, Reverse(s)}
        \cup {Rotate(s, k) : k \in 1..Len(s)}
        \cup {Swap(s, a, b) : a \in 1..Len(s), b \in 1..Len(s)}

\* the edges traversed twice in one direction and never in the other
TwiceSameDirection ==
    {e \in MeshEdges :
        \E a \in e : \E b \in e :
            /\ e = {a, b}
            /\ Traversals(a, b) = 2
            /\ Traversals(b, a) = 0}

\* C11: the winding pass handles each undirected edge once in whatever order
\* the directed-edge map is iterated: it takes the edges with count(a->b) +
\* count(b->a) = 2 for manifold, counts such an edge as inconsistent exactly
\* when the two counts are not (1,1), and windingInconsistentEdgeCount is
\* the number of edges traversed twice in the same direction.
C11_WindingEdges ==
    (pc = "analyzed" /\ BelowCap) =>
        LET m == directedEdgeCountsOf(indices, TriangleCount)
        IN  /\ \A order \in OrdersOf(m.keys) :
                   LET r == windingLoopFrom([keys |-> order, get |-> m.get], 1, Len(order) + 1,
                                [checkedEdges |-> {}, manifoldEdgeCount |-> 0,
                                 inconsistentEdgeCount |-> 0])
                   IN  /\ r.checkedEdges = {KeyOfEdge(e) : e \in MeshEdges}
                       /\ r.manifoldEdgeCount = Cardinality(WindingManifoldEdges)
                       /\ r.inconsistentEdgeCount
                              = diagnostics.windingInconsistentEdgeCount
            /\ diagnostics.windingInconsistentEdgeCount
                   = Cardinality(TwiceSameDirection)

\* a mesh with an edge traversed twice in one direction, an edge traversed
\* once each way and an edge of one triangle only
C11_Witness ==
    /\ pc = "analyzed" /\ BelowCap
    /\ diagnostics.windingInconsistentEdgeCount > 0
    /\ Cardinality(WindingManifoldEdges) > Cardinality(TwiceSameDirection)
    /\ diagnostics.boundaryEdgeCount > 0

\* count(a->b) of the directed-edge count map (0 without an entry)
DirectedCount(a, b) ==
    LET m == directedEdgeCountsOf(indices, TriangleCount)
        k == numericDirectedEdgeKey(a, b)
    IN  IF MapHas(m, k) THEN m.get[k] ELSE 0

\* totalTriangles of the winding pass at the edge e = {a, b}:
\* forwardCount + backwardCount, the counts of a->b and of its opposite b->a
WindingTotal(e) ==
    LET a == CHOOSE x \in e : \A y \in e : x <= y
        b == CHOOSE x \in e : \A y \in e : y <= x
    IN  DirectedCount(a, b) + DirectedCount(b, a)

\* C12: after the directed-edge count map is built, for every undirected
\* edge {a,b} the sum count(a->b) + count(b->a) the winding pass computes is
\* the number of triangles listed for {a,b} in the edge-face map.
C12_SumIsIncidence ==
    (pc = "analyzed" /\ BelowCap) =>
        \A e \in MeshEdges : WindingTotal(e) = Len(FacesOf(edgeFaceMap, e))

\* what holds of the two maps: the sums agree with the face lists on the
\* edges with two different end points
SumIsIncidenceOffLoops ==
    (pc = "analyzed" /\ BelowCap) =>
        \A e \in MeshEdges :
            Cardinality(e) = 2 => WindingTotal(e) = Len(FacesOf(edgeFaceMap, e))

\* the corners of triangle t
CornersOf(t) == {Corner(t, k) : k \in 0..2}

\* the triangles incident with vertex v
IncidentTriangles(v) == {t \in Triangles : v \in CornersOf(t)}

\* the incident triangles that have two corners other than v
LinkTriangles(v) ==
    {t \in Triangles : Cardinality({k \in 0..2 : Corner(t, k) = v}) = 1}

\* the link graph of v: its nodes are the other two vertices of each such
\* triangle, and each such triangle joins its other two vertices
LinkNodes(v) == UNION {CornersOf(t) \ {v} : t \in LinkTriangles(v)}

RECURSIVE LinkReach(_, _)
LinkReach(v, S) ==
    LET step == S \cup UNION {CornersOf(t) \ {v} :
                        t \in {u \in LinkTriangles(v) : CornersOf(u) \cap S # {}}}
    IN  IF step = S THEN S ELSE LinkReach(v, step)

LinkConnected(v) ==
    \A n \in LinkNodes(v) : LinkReach(v, {n}) = LinkNodes(v)

\* the verdict of the pass on vertex v when the search starts from node s
PinchedFrom(v, s) ==
    LET v2t       == vertexToTrianglesFrom(indices, 0, (Len(indices) + 2) \div 3, EmptyMap)
        edgeGraph == edgeGraphFrom(indices, v, v2t.get[v], 1, EmptyMap)
    IN  Cardinality(bfsFrom(edgeGraph, <<s>>, 0, {})) # Len(edgeGraph.keys)

\* C13: nonManifoldVertexCount is the number of vertices whose link graph is
\* not connected; a vertex with no or one incident triangle is not counted;
\* and the verdict on a vertex is the same from whichever link node the
\* search starts.
C13_PinchVertices ==
    (pc = "analyzed" /\ BelowCap) =>
        /\ diagnostics.nonManifoldVertexCount =
               Cardinality({v \in 0..(VertexCount - 1) : ~LinkConnected(v)})
        /\ diagnostics.hasNonManifoldVertices <=>
               \E v \in 0..(VertexCount - 1) : ~LinkConnected(v)
        /\ \A v \in 0..(VertexCount - 1) :
               Cardinality(IncidentTriangles(v)) <= 1 => LinkConnected(v)
        /\ \A v \in UsedVertexSet : \A s \in LinkNodes(v) :
               PinchedFrom(v, s) <=> ~LinkConnected(v)

\* two triangles that meet in one vertex only
C13_Witness ==
    /\ pc = "analyzed" /\ BelowCap
    /\ diagnostics.triangleCount = 2
    /\ diagnostics.nonManifoldVertexCount = 1
    /\ \E v \in UsedVertexSet : Cardinality(IncidentTriangles(v)) = 1

\* the triangles of an index array, as a sequence of triples, and back
TriangleSeq(idx) ==
    [t \in 1..(Len(idx) \div 3) |-> <<idx[3 * t - 2], idx[3 * t - 1], idx[3 * t]>>]

RECURSIVE TriangleIndexArray(_, _)
TriangleIndexArray(ts, n) ==
    IF n = 0 THEN <<>> ELSE TriangleIndexArray(ts, n - 1) \o ts[n]

\* the record computeMeshDiagnostics returns for the positions of the state
\* and the index array idx
DiagnosticsOf(idx) ==
    fullDiagnostics(positions, idx, diagnosticsEdgeFaceMap(idx, Len(idx) \div 3))

\* the counts and the booleans of the record
CountAndFlagFields ==
    {"vertexCount", "triangleCount", "edgeCount", "boundaryEdgeCount",
     "nonManifoldEdgeCount", "nonManifoldVertexCount", "connectedComponents",
     "eulerCharacteristic", "degenerateTriangleCount",
     "windingInconsistentEdgeCount", "windingCheckSkipped",
     "duplicateVertexCount", "tinyTriangleCount", "needleTriangleCount",
     "isolatedVertexCount", "sharpEdgeCount", "coplanarEdgeCount",
     "selfIntersectionCount", "tJunctionCount", "thinWallCount",
     "coincidentFaceCount", "isWatertight", "isManifold",
     "hasNonManifoldVertices", "hasConsistentWinding"}

SameCountsAndFlags(d1, d2) == \A f \in CountAndFlagFields : d1[f] = d2[f]

\* C14: reordering the triangles of indices, each triangle keeping its three
\* indices in order, changes no count and no boolean of the record
\* computeMeshDiagnostics returns (here: the triangles in reverse order).
C14_ReorderInvariant ==
    (pc = "analyzed" /\ BelowCap) =>
        LET reversed == Reverse(TriangleSeq(indices))
        IN  SameCountsAndFlags(
                DiagnosticsOf(TriangleIndexArray(reversed, Len(reversed))),
                diagnostics)

(***************************************************************************)
(* Vertices closer than the duplicate tolerance.                            *)
(* The meshes below have vertices and no triangles, and their coordinates   *)
(* are whole multiples of 1e-7, written as integers: x stands for           *)
(* x * 1e-7.  Without triangles every pass but detectDuplicateVertices,     *)
(* computeBoundingBox and detectThinWalls returns at once; the bounding     *)
(* box and the thin-wall test (40000 * d^2 < diagonal^2) do not depend on   *)
(* the unit, detectDuplicateVertices does:                                  *)
(*   tolerance = 1e-6 is 10 units, cellSize = 1e-5 is 100 units,            *)
(*   Math.floor(x / cellSize) is x \div 100  (x not a multiple of 100),     *)
(*   distSq < tolerance * tolerance  <=>  the squared distance in units     *)
(*   is below 100.                                                          *)
(***************************************************************************)
nearCell(x) == x \div 100

RECURSIVE nearDuplicateVerticesFrom(_, _, _)
nearDuplicateVerticesFrom(pos, i, duplicateCount) ==
    IF i >= Len(pos) \div 3 THEN duplicateCount
    ELSE LET p    == VertexAt(pos, i)
             key(q) == <<nearCell(q[1]), nearCell(q[2]), nearCell(q[3])>>
             cell == {j \in 0..(i - 1) : key(VertexAt(pos, j)) = key(p)}
             isDuplicate == \E j \in cell : NormSq(Sub(p, VertexAt(pos, j))) < 100
         IN  nearDuplicateVerticesFrom(pos, i + 1,
                 IF isDuplicate THEN duplicateCount + 1 ELSE duplicateCount)

\* computeMeshDiagnostics(positions, []) for positions in units of 1e-7
nearDiagnostics(pos) ==
    [fullDiagnostics(pos, <<>>, EmptyMap) EXCEPT
        !.duplicateVertexCount = nearDuplicateVerticesFrom(pos, 0, 0)]

\* the largest number of vertices of such a mesh
MaxNearV == 3

\* points on a line parallel to the x axis, on both sides of the cell
\* border at x = 100
NearPoints == {<<95, 5, 5>>, <<99, 5, 5>>, <<104, 5, 5>>, <<108, 5, 5>>}

InitNear ==
    /\ positions = <<>>
    /\ indices = <<>>
    /\ extraTriangles = 0
    /\ pc = "input"
    /\ diagnostics = NoDiagnostics
    /\ edgeFaceMap = EmptyMap
    /\ problemGeometry = NoGeometry
    /\ overlayEdgeFaceMap = EmptyMap
    /\ NoDocument
    /\ InitHook
    /\ InitWorker
    /\ quality = NoQuality

AddNearVertex ==
    /\ pc = "input"
    /\ VertexCount < MaxNearV
    /\ \E p \in NearPoints : positions' = positions \o p
    /\ UNCHANGED <<indices, extraTriangles, pc, diagnostics, edgeFaceMap,
                   problemGeometry, overlayEdgeFaceMap>>
    /\ UNCHANGED <<mergeVars, hookVars, workerVars, quality>>

\* diagnostics = computeMeshDiagnostics(positions, [])
AnalyzeNear ==
    /\ pc = "input"
    /\ pc' = "analyzed"
    /\ edgeFaceMap' = diagnosticsEdgeFaceMap(indices, TriangleCount)
    /\ diagnostics' = nearDiagnostics(positions)
    /\ UNCHANGED <<positions, indices, extraTriangles, problemGeometry,
                   overlayEdgeFaceMap>>
    /\ UNCHANGED <<mergeVars, hookVars, workerVars, quality>>

NextNear == AddNearVertex \/ AnalyzeNear

SpecNear == InitNear /\ [][NextNear]_vars

\* the positions moved by the vector d
Translated(pos, d) == [i \in 1..Len(pos) |-> pos[i] + d[((i - 1) % 3) + 1]]

\* translations by less than a cell
NearShifts == {<<3, 0, 0>>, <<-3, 0, 0>>, <<0, 40, 0>>}

\* C15: translating all positions by one constant vector changes no integer
\* count and no boolean of the record computeMeshDiagnostics returns, and in
\* particular not duplicateVertexCount.
C15_TranslationInvariant ==
    pc = "analyzed" =>
        \A d \in NearShifts :
            SameCountsAndFlags(nearDiagnostics(Translated(positions, d)),
                               diagnostics)

\* the vertices with an earlier vertex within the tolerance of 10 units
NearAnEarlierVertex ==
    {v \in 0..(VertexCount - 1) :
        \E u \in 0..(v - 1) :
            NormSq(Sub(VertexAt(positions, v), VertexAt(positions, u))) < 100}

\* the different positions of the mesh
DistinctPositions == {VertexAt(positions, v) : v \in 0..(VertexCount - 1)}

\* C20: duplicateVertexCount is the number of vertices with a vertex of
\* smaller index within distance 1e-6; every vertex at exactly the position
\* of an earlier vertex is counted, so duplicateVertexCount is at least the
\* number of vertices less the number of distinct positions.
C20_DuplicateCount ==
    pc = "analyzed" =>
        /\ diagnostics.duplicateVertexCount = Cardinality(NearAnEarlierVertex)
        /\ diagnostics.duplicateVertexCount
               >= VertexCount - Cardinality(DistinctPositions)

\* what holds of the count: a vertex at exactly the position of an earlier
\* vertex is counted, and every counted vertex has an earlier vertex within
\* the tolerance
DuplicateCountBounds ==
    pc = "analyzed" =>
        /\ diagnostics.duplicateVertexCount <= Cardinality(NearAnEarlierVertex)
        /\ diagnostics.duplicateVertexCount
               >= VertexCount - Cardinality(DistinctPositions)

(***************************************************************************)
(* The optional blocks of the record.                                      *)
(***************************************************************************)
\* the triangles with an area
TrianglesWithArea ==
    {t \in 0..(TriangleCount - 1) :
        LET a == VertexAt(positions, At(indices, 3 * t))
            b == VertexAt(positions, At(indices, 3 * t + 1))
            c == VertexAt(positions, At(indices, 3 * t + 2))
        IN  NormSq(Cross(Sub(b, a), Sub(c, a))) > 0}

\* the edges between two triangles with an area, which have a dihedral angle
EdgesWithAngle ==
    {e \in MeshEdges :
        LET faces == FacesOf(edgeFaceMap, e)
        IN  /\ Len(faces) = 2
            /\ faces[1] \in TrianglesWithArea
            /\ faces[2] \in TrianglesWithArea}

\* C16: for the mesh without vertices and triangles the record is a normal
\* one whose blocks edgeLengthStats, aspectRatioStats, dihedralAngleStats,
\* valenceDistribution and boundingBox are all null, and each of the blocks
\* is null exactly when its input is empty.
C16_OptionalBlocks ==
    (pc = "analyzed" /\ BelowCap) =>
        /\ (VertexCount = 0 /\ TriangleCount = 0) =>
               /\ diagnostics.edgeLengthStats = Null
               /\ diagnostics.aspectRatioStats = Null
               /\ diagnostics.dihedralAngleStats = Null
               /\ diagnostics.valenceDistribution = Null
               /\ diagnostics.boundingBox = Null
        /\ (diagnostics.edgeLengthStats = Null) <=> (TriangleCount = 0)
        /\ (diagnostics.aspectRatioStats = Null) <=> (TrianglesWithArea = {})
        /\ (diagnostics.dihedralAngleStats = Null) <=> (EdgesWithAngle = {})
        /\ (diagnostics.valenceDistribution = Null) <=> (Len(indices) = 0)
        /\ (diagnostics.boundingBox = Null) <=> (VertexCount = 0)

\* what holds of the blocks: the three blocks of statistics are null exactly
\* when there is no value, the other two are never null
StatsBlocks ==
    (pc = "analyzed" /\ BelowCap) =>
        /\ (diagnostics.edgeLengthStats = Null) <=> (TriangleCount = 0)
        /\ (diagnostics.aspectRatioStats = Null) <=> (TrianglesWithArea = {})
        /\ (diagnostics.dihedralAngleStats = Null) <=> (EdgesWithAngle = {})
        /\ diagnostics.valenceDistribution # Null
        /\ diagnostics.boundingBox # Null

(***************************************************************************)
(* Closed solids.                                                          *)
(* The meshes below are closed surfaces given with their winding, one face *)
(* of which may be reversed, or to which one triangle with an index that   *)
(* is no vertex may be added.  Of computeMeshDiagnostics the passes over   *)
(* the index array are carried out (the record is topologyDiagnostics);    *)
(* the passes over the coordinates, whose cost grows with the square of    *)
(* the number of triangles, are left out.                                  *)
(***************************************************************************)
\* the largest polygon of the small bipyramids
MaxGon == 4

\* the length of the long ring of triangles: 402 triangles, 603 edges
BigRing == 67

\* the number of faces, counted from the first, that may be reversed
MaxFlipFaces == 3

\* the largest number of vertices of a solid that gets a stray triangle
MaxStrayV == 9

TetrahedronPositions == <<0, 0, 0,  2, 0, 0,  0, 2, 0,  0, 0, 2>>

TetrahedronIndices == <<0, 2, 1,  0, 1, 3,  0, 3, 2,  1, 2, 3>>

\* generateCubeWatertight, coordinates in units of 0.5
CubePositions ==
    <<-1, -1, 1,   1, -1, 1,   1, 1, 1,   -1, 1, 1,
      -1, -1, -1,  1, -1, -1,  1, 1, -1,  -1, 1, -1>>

CubeIndices ==
    <<0, 1, 2,  0, 2, 3,   4, 6, 5,  4, 7, 6,   3, 2, 6,  3, 6, 7,
      0, 5, 1,  0, 4, 5,   1, 5, 6,  1, 6, 2,   0, 3, 7,  0, 7, 4>>

\* the bipyramid over a polygon of n corners: the corners 0..n-1 lie on a
\* parabola in the plane z = 0, vertex n is above and vertex n+1 below
BipyramidPositions(n) ==
    [i \in 1..(3 * (n + 2)) |->
        LET v == (i - 1) \div 3
            c == (i - 1) % 3
        IN  IF v < n THEN (IF c = 0 THEN 2 * v ELSE IF c = 1 THEN 4 * v * v ELSE 0)
            ELSE (IF c = 0 THEN 2 ELSE IF c = 1 THEN 5
                  ELSE IF v = n THEN 1 ELSE -1)]

\* triangle 2k is (k, k+1, n) and triangle 2k+1 is (k+1, k, n+1)
BipyramidIndices(n) ==
    [i \in 1..(6 * n) |->
        LET t  == (i - 1) \div 3
            c  == (i - 1) % 3
            k  == t \div 2
            k1 == (k + 1) % n
        IN  IF t % 2 = 0
            THEN (IF c = 0 THEN k ELSE IF c = 1 THEN k1 ELSE n)
            ELSE (IF c = 0 THEN k1 ELSE IF c = 1 THEN k ELSE n + 1)]

\* the closed ring of n prisms with three sides: vertex 3i + j is corner j
\* of section i, and the side between the sections i and i+1 and the corners
\* j and j+1 is cut into two triangles, (b, c, a) for j = 0 or (c, a, b)
\* for j > 0, and (c, d, a), with a and d in section i and b and c in
\* section i+1.  It is a torus, of genus 1.
RingVertex(n, i, j) == 3 * (i % n) + (j % 3)

\* the sections lie along a line; the passes carried out here read no
\* coordinate
RingPositions(n) ==
    [k \in 1..(9 * n) |->
        LET v == (k - 1) \div 3
            c == (k - 1) % 3
        IN  IF c = 0 THEN v \div 3
            ELSE IF c = 1 THEN (IF v % 3 = 1 THEN 2 ELSE 0)
            ELSE (IF v % 3 = 2 THEN 2 ELSE 0)]

RingIndices(n) ==
    [k \in 1..(18 * n) |->
        LET t == (k - 1) \div 3
            c == (k - 1) % 3
            i == t \div 6
            j == (t % 6) \div 2
            a == RingVertex(n, i, j)
            b == RingVertex(n, i + 1, j)
            cc == RingVertex(n, i + 1, j + 1)
            d == RingVertex(n, i, j + 1)
        IN  IF t % 2 = 1
            THEN (IF c = 0 THEN cc ELSE IF c = 1 THEN d ELSE a)
            ELSE IF j = 0
            THEN (IF c = 0 THEN b ELSE IF c = 1 THEN cc ELSE a)
            ELSE (IF c = 0 THEN cc ELSE IF c = 1 THEN a ELSE b)]

Solids ==
    {[positions |-> TetrahedronPositions, indices |-> TetrahedronIndices],
     [positions |-> CubePositions, indices |-> CubeIndices]}
    \cup {[positions |-> BipyramidPositions(n), indices |-> BipyramidIndices(n)] :
             n \in 3..MaxGon}
    \cup {[positions |-> RingPositions(n), indices |-> RingIndices(n)] :
             n \in {3, BigRing}}

InitSolid ==
    /\ \E solid \in Solids :
           /\ positions = solid.positions
           /\ indices = solid.indices
    /\ extraTriangles = 0
    /\ pc = "input"
    /\ diagnostics = NoDiagnostics
    /\ edgeFaceMap = EmptyMap
    /\ problemGeometry = NoGeometry
    /\ overlayEdgeFaceMap = EmptyMap
    /\ NoDocument
    /\ InitHook
    /\ InitWorker
    /\ quality = NoQuality

\* the index array with the triangles first .. first + size - 1 reversed:
\* (a, b, c) becomes (a, c, b)
ReverseFace(idx, first, size) ==
    [i \in 1..Len(idx) |->
        LET t == (i - 1) \div 3
            c == (i - 1) % 3
        IN  IF t >= first /\ t < first + size
            THEN (IF c = 0 THEN idx[i] ELSE IF c = 1 THEN idx[i + 1] ELSE idx[i - 1])
            ELSE idx[i]]

\* one face, of one triangle or of two triangles next to each other, is
\* reversed
FlipFace ==
    /\ pc = "input"
    /\ \E solid \in Solids : indices = solid.indices
    /\ \E size \in 1..2 : \E face \in 0..(MaxFlipFaces - 1) :
           /\ (face + 1) * size <= TriangleCount
           /\ indices' = ReverseFace(indices, face * size, size)
    /\ UNCHANGED <<positions, extraTriangles, pc, diagnostics, edgeFaceMap,
                   problemGeometry, overlayEdgeFaceMap>>
    /\ UNCHANGED <<mergeVars, hookVars, workerVars, quality>>

\* a triangle with a corner that is no vertex is added
AddStray ==
    /\ pc = "input"
    /\ VertexCount <= MaxStrayV
    /\ \E solid \in Solids : indices = solid.indices
    /\ \E i0, i1, i2 \in {0, 1, VertexCount} :
           /\ VertexCount \in {i0, i1, i2}
           /\ indices' = indices \o <<i0, i1, i2>>
    /\ UNCHANGED <<positions, extraTriangles, pc, diagnostics, edgeFaceMap,
                   problemGeometry, overlayEdgeFaceMap>>
    /\ UNCHANGED <<mergeVars, hookVars, workerVars, quality>>

\* the passes of computeMeshDiagnostics(positions, indices) over the indices
AnalyzeSolid ==
    /\ pc = "input"
    /\ pc' = "analyzed"
    /\ edgeFaceMap' = diagnosticsEdgeFaceMap(indices, TriangleCount)
    /\ diagnostics' = topologyDiagnostics(indices, VertexCount, edgeFaceMap')
    /\ UNCHANGED <<positions, indices, extraTriangles, problemGeometry,
                   overlayEdgeFaceMap>>
    /\ UNCHANGED <<mergeVars, hookVars, workerVars, quality>>

NextSolid == FlipFace \/ AddStray \/ AnalyzeSolid

SpecSolid == InitSolid /\ [][NextSolid]_vars

\* the triangles with a corner that is no vertex
OffendingTriangles ==
    {t \in Triangles : \E k \in 0..2 : Corner(t, k) >= VertexCount}

\* the index array without these triangles
WithoutOffending ==
    LET valid    == Triangles \ OffendingTriangles
        place    == [t \in valid |-> Cardinality({u \in valid : u < t})]
        at       == [n \in 0..(Cardinality(valid) - 1) |->
                        CHOOSE t \in valid : place[t] = n]
    IN  [i \in 1..(3 * Cardinality(valid)) |->
            Corner(at[(i - 1) \div 3], (i - 1) % 3)]

\* the record of the mesh without the offending triangles
DiagnosticsWithoutOffending ==
    topologyDiagnostics(WithoutOffending, VertexCount,
        diagnosticsEdgeFaceMap(WithoutOffending, Len(WithoutOffending) \div 3))

\* C17: when the index array holds a value that is no vertex,
\* computeMeshDiagnostics either leaves the offending triangles out (they
\* add nothing to edgeCount, to the union-find or to the used vertices) or
\* fails with an error; it returns no record that comes from a partial
\* analysis of them.
C17_InvalidIndices ==
    (pc = "analyzed" /\ OffendingTriangles # {}) =>
        \/ diagnostics = RangeErrorThrown
        \/ /\ diagnostics.edgeCount = DiagnosticsWithoutOffending.edgeCount
           /\ diagnostics.connectedComponents
                  = DiagnosticsWithoutOffending.connectedComponents
           /\ diagnostics.eulerCharacteristic
                  = DiagnosticsWithoutOffending.eulerCharacteristic
           /\ diagnostics.isolatedVertexCount
                  = DiagnosticsWithoutOffending.isolatedVertexCount

\* what holds of such an index array: the used vertices are those of the
\* mesh without the offending corners, and every edge of an offending
\* triangle is counted
InvalidIndicesCounted ==
    (pc = "analyzed" /\ OffendingTriangles # {}
                     /\ diagnostics # RangeErrorThrown) =>
        /\ diagnostics.isolatedVertexCount
               = DiagnosticsWithoutOffending.isolatedVertexCount
        /\ diagnostics.edgeCount = Cardinality(MeshEdges)
        /\ diagnostics.edgeCount > DiagnosticsWithoutOffending.edgeCount

\* a state in which the recursion of find did not end
FindThrows == pc = "analyzed" /\ diagnostics = RangeErrorThrown

\* every edge lies on two triangles and is traversed once each way, no
\* triangle repeats a corner, and the triangles at each vertex form one fan
ClosedOrientable ==
    /\ \A t \in Triangles : Cardinality(CornersOf(t)) = 3
    /\ \A e \in MeshEdges :
           \E a \in e : \E b \in e :
               /\ e = {a, b}
               /\ Traversals(a, b) = 1
               /\ Traversals(b, a) = 1
    /\ \A v \in UsedVertexSet : LinkConnected(v)

\* V - E + F = 2 on the sets of the mesh
GenusZero ==
    Cardinality(UsedVertexSet) - Cardinality(MeshEdges) + TriangleCount = 2

\* a closed, orientable surface of genus 0 in one component
IsSphere ==
    /\ OffendingTriangles = {}
    /\ TriangleCount > 0
    /\ GenusZero
    /\ Cardinality(ComponentSets) = 1
    /\ ClosedOrientable

\* C18: for a mesh that is a closed, orientable surface of genus 0 in one
\* component (every edge on two triangles, traversed once each way) the
\* record has boundaryEdgeCount = 0, nonManifoldEdgeCount = 0,
\* nonManifoldVertexCount = 0, connectedComponents = 1,
\* windingInconsistentEdgeCount = 0 and eulerCharacteristic = 2; for the
\* cube of 8 vertices and 12 triangles edgeCount = 18.
C18_ClosedSurface ==
    pc = "analyzed" =>
        /\ IsSphere =>
               /\ diagnostics.boundaryEdgeCount = 0
               /\ diagnostics.nonManifoldEdgeCount = 0
               /\ diagnostics.nonManifoldVertexCount = 0
               /\ diagnostics.connectedComponents = 1
               /\ diagnostics.windingInconsistentEdgeCount = 0
               /\ diagnostics.eulerCharacteristic = 2
        /\ (positions = CubePositions /\ indices = CubeIndices) =>
               diagnostics.edgeCount = 18

C18_Witness ==
    /\ pc = "analyzed"
    /\ indices = CubeIndices
    /\ IsSphere
    /\ diagnostics.edgeCount = 18
    /\ diagnostics.eulerCharacteristic = 2

\* the directed sides of the triangles of an index array
DirectedSides(idx) ==
    {<<idx[3 * t + k + 1], idx[3 * t + ((k + 1) % 3) + 1]>> :
        t \in 0..(Len(idx) \div 3 - 1), k \in 0..2}

\* closed, manifold and consistently wound: the sides are all different and
\* each has its opposite
ClosedConsistentlyWound(idx) ==
    LET sides == DirectedSides(idx)
    IN  /\ Cardinality(sides) = Len(idx)
        /\ \A sd \in sides : sd[1] # sd[2] /\ <<sd[2], sd[1]>> \in sides

\* the mesh is a closed, manifold, consistently wound mesh with the one or
\* two triangles of one face reversed
OneFaceReversed ==
    /\ TriangleCount > 2
    /\ OffendingTriangles = {}
    /\ ~ClosedConsistentlyWound(indices)
    /\ \E size \in 1..2 : \E first \in 0..(TriangleCount - size) :
           ClosedConsistentlyWound(ReverseFace(indices, first, size))

\* C19: reversing the triangles of one face of a closed, manifold,
\* consistently wound mesh leaves boundaryEdgeCount = 0 and
\* nonManifoldEdgeCount = 0 (isWatertight and isManifold stay true), makes
\* windingInconsistentEdgeCount > 0 and makes hasConsistentWinding false.
C19_FlippedFace ==
    (pc = "analyzed" /\ OneFaceReversed) =>
        /\ diagnostics.boundaryEdgeCount = 0
        /\ diagnostics.nonManifoldEdgeCount = 0
        /\ diagnostics.isWatertight
        /\ diagnostics.isManifold
        /\ diagnostics.windingInconsistentEdgeCount > 0
        /\ ~diagnostics.hasConsistentWinding

\* C19, amended: ... and makes hasConsistentWinding false when the
\* inconsistent edges are more than 0.5 % of the edges of the mesh;
\* otherwise hasConsistentWinding stays true.
C19_FlippedFaceByShare ==
    (pc = "analyzed" /\ OneFaceReversed) =>
        /\ diagnostics.boundaryEdgeCount = 0
        /\ diagnostics.nonManifoldEdgeCount = 0
        /\ diagnostics.isWatertight
        /\ diagnostics.isManifold
        /\ diagnostics.windingInconsistentEdgeCount > 0
        /\ diagnostics.hasConsistentWinding
               <=> (200 * diagnostics.windingInconsistentEdgeCount
                        <= diagnostics.edgeCount)

\* the cube with its front face reversed to 0,2,1 / 0,3,2
C19_Witness ==
    /\ pc = "analyzed"
    /\ OneFaceReversed
    /\ indices = ReverseFace(CubeIndices, 0, 2)
    /\ diagnostics.windingInconsistentEdgeCount = 4
    /\ ~diagnostics.hasConsistentWinding

\* the long ring with one triangle reversed: three inconsistent edges of 603
LongRingStaysConsistent ==
    /\ pc = "analyzed"
    /\ OneFaceReversed
    /\ diagnostics.edgeCount = 603
    /\ diagnostics.windingInconsistentEdgeCount = 3
    /\ diagnostics.hasConsistentWinding

(***************************************************************************)
(* Isolated vertices, overlay centroids, and the needle and tiny counts.   *)
(***************************************************************************)
\* C21: below the cap isolatedVertexCount is the vertex count minus the
\* number of distinct indices that occur in indices; it is 0 exactly when
\* every vertex is a corner of some triangle, and it is never negative.
C21_IsolatedVertices ==
    (Analyzed /\ BelowCap) =>
        /\ diagnostics.isolatedVertexCount
               = VertexCount - Cardinality(UsedVertexSet)
        /\ diagnostics.isolatedVertexCount = 0
               <=> (\A v \in 0..(VertexCount - 1) : v \in UsedVertexSet)
        /\ diagnostics.isolatedVertexCount >= 0

\* a mesh of triangles with a vertex that no triangle uses
C21_Witness ==
    /\ Analyzed /\ BelowCap
    /\ diagnostics.triangleCount >= 1
    /\ diagnostics.isolatedVertexCount >= 1

\* C22: when selfIntersectionCount > 0 the overlay holds one centroid of
\* three numbers for each pair that the diagnostics pass counted:
\* selfIntersectionCentroids.length = 3 * selfIntersectionCount.
C22_CentroidPerPair ==
    (pc = "extracted" /\ diagnostics.selfIntersectionCount > 0) =>
        Len(problemGeometry.selfIntersectionCentroids)
            = 3 * diagnostics.selfIntersectionCount

\* the aspect ratio of triangle t is above 10: infinite for a triangle
\* without area, else maxEdge^2 / (2 * area) > 10
AspectRatioAboveTen(t) ==
    LET normalSq == normalSqOf(positions, indices, t)
        maxSq    == Max3(sideSquaresOf(positions, indices, t))
    IN  normalSq = 0 \/ maxSq * maxSq > 100 * normalSq

\* C24: below the cap needleTriangleCount is the number of triangles whose
\* aspect ratio is above 10, the infinite ratio of a triangle without area
\* included.
C24_NeedleCount ==
    (Analyzed /\ BelowCap) =>
        diagnostics.needleTriangleCount
            = Cardinality({t \in Triangles : AspectRatioAboveTen(t)})

\* the count leaves out the triangles of infinite aspect ratio
NeedlesHaveArea ==
    (Analyzed /\ BelowCap) =>
        diagnostics.needleTriangleCount
            = Cardinality({t \in Triangles :
                  /\ normalSqOf(positions, indices, t) > 0
                  /\ AspectRatioAboveTen(t)})

\* sqrt(p) + sqrt(q) > sqrt(c) for naturals p, q, c:
\*     2 * sqrt(p * q) > c - p - q
SqrtSumAbove(p, q, c) ==
    LET rest == c - p - q
    IN  IF rest < 0 THEN TRUE
        ELSE IF rest > Isqrt(4 * p * q) THEN FALSE
        ELSE rest * rest < 4 * p * q

\* 0 < area < 0.01 * median(areas) for triangle t, with area = sqrt(normalSq)
\* / 2 and the median of computeStats: the middle value of the sorted areas,
\* the mean of the two middle values when their number is even
TinyByMedian(t) ==
    LET sorted   == sortedAreasFrom(positions, indices, 0, <<>>)
        n        == Len(sorted)
        normalSq == normalSqOf(positions, indices, t)
    IN  /\ normalSq > 0
        /\ IF n % 2 = 1
           THEN 10000 * normalSq < sorted[(n + 1) \div 2]
           ELSE SqrtSumAbove(sorted[n \div 2], sorted[n \div 2 + 1],
                             40000 * normalSq)

\* C25: below the cap tinyTriangleCount is the number of triangles with
\* 0 < area < 0.01 * median(areas), the median being that of the
\* distribution stats.
C25_TinyCount ==
    (Analyzed /\ BelowCap) =>
        diagnostics.tinyTriangleCount
            = Cardinality({t \in Triangles : TinyByMedian(t)})

\* with an odd number of triangles the two medians are the same value
TinyCountOddNumber ==
    (Analyzed /\ BelowCap /\ Cardinality(Triangles) % 2 = 1) =>
        diagnostics.tinyTriangleCount
            = Cardinality({t \in Triangles : TinyByMedian(t)})

(***************************************************************************)
(* computeDiagnosticsFromDocument (types.ts 2668-2708) and the merge of    *)
(* handleAnalyze (analyzer.worker, part_007 86-127).                       *)
(* An accessor is [present, hasArray, array]: present is whether           *)
(* getAttribute('POSITION') or getIndices() returns an accessor, hasArray  *)
(* whether its getArray() returns an array.  A POSITION accessor is of     *)
(* type VEC3, so the length of its array is a multiple of 3.               *)
(***************************************************************************)
MaxPrimitives == 2

NoAccessor == [present |-> FALSE, hasArray |-> FALSE, array |-> <<>>]
NoArray == [present |-> TRUE, hasArray |-> FALSE, array |-> <<>>]
ArrayOf(a) == [present |-> TRUE, hasArray |-> TRUE, array |-> a]

\* the vertices of a primitive are those of whole triangles: three of them.
\* 16777217 = 2^24 + 1 is no 32-bit float
PositionAccessors ==
    {NoAccessor, NoArray, ArrayOf(<<0, 0, 0, 2, 0, 0, 0, 2, 0>>),
     ArrayOf(<<1, 2, 16777217, 0, 0, 0, 0, 0, 1>>)}

\* the index 3 is no vertex of its own primitive
IndexAccessors ==
    {NoAccessor, NoArray, ArrayOf(<<0, 1, 2>>), ArrayOf(<<0, 2, 3>>)}

\* the primitives in the order of the loops over listMeshes() and
\* listPrimitives()
RECURSIVE listPrimitives(_, _)
listPrimitives(meshes, m) ==
    IF m = 0 THEN <<>> ELSE listPrimitives(meshes, m - 1) \o meshes[m]

\* new Float32Array(array): each number rounded to the nearest 32-bit float,
\* for integers below 2^25 (an integer from 2^24 on to the nearest multiple
\* of 2, a tie to the multiple of 4)
Float32Array(array) ==
    [i \in 1..Len(array) |->
        LET x == array[i]
            a == Abs(x)
            r == IF a < 16777216 \/ a % 2 = 0 THEN a
                 ELSE IF (a + 1) % 4 = 0 THEN a + 1 ELSE a - 1
        IN  IF x < 0 THEN -r ELSE r]

\* a variant that leaves the indices of a primitive as they are
mergePrimitiveUnshifted(acc, prim) ==
    IF ~prim.POSITION.present \/ ~prim.POSITION.hasArray THEN acc
    ELSE [allPositions |-> acc.allPositions \o prim.POSITION.array,
          allIndices |-> acc.allIndices \o prim.indices.array,
          vertexOffset |-> acc.vertexOffset + Len(prim.POSITION.array) \div 3]

\* computeDiagnosticsFromDocument: the body of the loop over the primitives
mergePrimitive(acc, prim) ==
    LET posAccessor == prim.POSITION
        idxAccessor == prim.indices
    IN  IF ~posAccessor.present THEN acc
        ELSE IF ~posAccessor.hasArray THEN acc
        ELSE LET positions0 == posAccessor.array
                 vertCount  == Len(positions0) \div 3
                 pushed ==
                     IF idxAccessor.present
                     THEN IF idxAccessor.hasArray
                          THEN [i \in 1..Len(idxAccessor.array) |->
                                   idxAccessor.array[i] + acc.vertexOffset]
                          ELSE <<>>
                     ELSE [i \in 1..vertCount |-> acc.vertexOffset + (i - 1)]
             IN  [allPositions |-> acc.allPositions \o positions0,
                  allIndices |-> acc.allIndices \o pushed,
                  vertexOffset |-> acc.vertexOffset + Len(positions0) \div 3]

RECURSIVE mergePrimitivesFrom(_, _, _)
mergePrimitivesFrom(prims, k, acc) ==
    IF k > Len(prims) THEN acc
    ELSE mergePrimitivesFrom(prims, k + 1, mergePrimitive(acc, prims[k]))

\* handleAnalyze: the body of the loop over the primitives
workerMergePrimitive(acc, prim) ==
    LET posAccessor == prim.POSITION
        idxAccessor == prim.indices
    IN  IF ~posAccessor.present THEN acc
        ELSE IF ~posAccessor.hasArray THEN acc
        ELSE LET positions0 == posAccessor.array
                 vertCount  == Len(positions0) \div 3
                 pushed ==
                     IF idxAccessor.present
                     THEN IF idxAccessor.hasArray
                          THEN [i \in 1..Len(idxAccessor.array) |->
                                   idxAccessor.array[i] + acc.vertexOffset]
                          ELSE <<>>
                     ELSE [i \in 1..vertCount |-> acc.vertexOffset + (i - 1)]
             IN  [allPositions |-> acc.allPositions \o positions0,
                  allIndices |-> acc.allIndices \o pushed,
                  vertexOffset |-> acc.vertexOffset + Len(positions0) \div 3]

RECURSIVE workerMergePrimitivesFrom(_, _, _)
workerMergePrimitivesFrom(prims, k, acc) ==
    IF k > Len(prims) THEN acc
    ELSE workerMergePrimitivesFrom(prims, k + 1,
                                   workerMergePrimitive(acc, prims[k]))

NothingMerged == [allPositions |-> <<>>, allIndices |-> <<>>, vertexOffset |-> 0]

InitMerge ==
    /\ positions = <<>>
    /\ indices = <<>>
    /\ extraTriangles = 0
    /\ pc = "input"
    /\ diagnostics = NoDiagnostics
    /\ edgeFaceMap = EmptyMap
    /\ problemGeometry = NoGeometry
    /\ overlayEdgeFaceMap = EmptyMap
    /\ NoDocument
    /\ InitHook
    /\ InitWorker
    /\ quality = NoQuality

\* a primitive is added to the last mesh of the document or to a new mesh
AddPrimitive ==
    /\ pc = "input"
    /\ Len(listPrimitives(document, Len(document))) < MaxPrimitives
    /\ \E pos \in PositionAccessors : \E idx \in IndexAccessors :
           LET prim == [POSITION |-> pos, indices |-> idx]
           IN  \/ document' = Append(document, <<prim>>)
               \/ /\ document # <<>>
                  /\ document' = [document EXCEPT ![Len(document)] = Append(@, prim)]
    /\ UNCHANGED <<positions, indices, extraTriangles, pc, diagnostics,
                   edgeFaceMap, problemGeometry, overlayEdgeFaceMap>>
    /\ UNCHANGED <<allPositions, allIndices, hookVars, workerVars, quality>>

\* diagnostics = computeDiagnosticsFromDocument(document): positions and
\* indices are the arguments it passes to computeMeshDiagnostics, of which
\* the passes over the indices are carried out
DocumentDiagnostics ==
    /\ pc = "input"
    /\ pc' = "analyzed"
    /\ LET merged == mergePrimitivesFrom(
                         listPrimitives(document, Len(document)), 1, NothingMerged)
       IN  /\ positions' = Float32Array(merged.allPositions)
           /\ indices' = merged.allIndices
    /\ edgeFaceMap' = diagnosticsEdgeFaceMap(indices', Len(indices') \div 3)
    /\ diagnostics' = topologyDiagnostics(indices', Len(positions') \div 3,
                                          edgeFaceMap')
    /\ UNCHANGED <<extraTriangles, problemGeometry, overlayEdgeFaceMap>>
    /\ UNCHANGED <<document, allPositions, allIndices, hookVars, workerVars,
                   quality>>

\* handleAnalyze, "Get raw mesh data for problem geometry extraction":
\* allPositions and allIndices are the arguments it passes to
\* extractProblemGeometry
WorkerMerge ==
    /\ pc = "analyzed"
    /\ diagnostics # RangeErrorThrown
    /\ pc' = "extracted"
    /\ LET merged == workerMergePrimitivesFrom(
                         listPrimitives(document, Len(document)), 1, NothingMerged)
       IN  /\ allPositions' = Float32Array(merged.allPositions)
           /\ allIndices' = merged.allIndices
    /\ UNCHANGED <<positions, indices, extraTriangles, diagnostics, edgeFaceMap,
                   problemGeometry, overlayEdgeFaceMap, document, hookVars, workerVars, quality>>

NextMerge == AddPrimitive \/ DocumentDiagnostics \/ WorkerMerge

SpecMerge == InitMerge /\ [][NextMerge]_vars

\* the primitives of the document, in order
Primitives == listPrimitives(document, Len(document))

\* primitive j has a POSITION array
HasPositions(j) ==
    Primitives[j].POSITION.present /\ Primitives[j].POSITION.hasArray

OwnVertexCount(j) == Len(Primitives[j].POSITION.array) \div 3

\* the number of vertices merged before primitive j
RECURSIVE OffsetBefore(_)
OffsetBefore(j) ==
    IF j <= 1 THEN 0
    ELSE OffsetBefore(j - 1)
             + (IF HasPositions(j - 1) THEN OwnVertexCount(j - 1) ELSE 0)

\* what primitive j contributes to the merged indices
ShiftedIndices(j) ==
    LET own == Primitives[j].indices
    IN  IF ~HasPositions(j) THEN <<>>
        ELSE IF ~own.present
        THEN [i \in 1..OwnVertexCount(j) |-> OffsetBefore(j) + i - 1]
        ELSE [i \in 1..Len(own.array) |-> own.array[i] + OffsetBefore(j)]

RECURSIVE ShiftedIndicesUpTo(_)
ShiftedIndicesUpTo(j) ==
    IF j = 0 THEN <<>> ELSE ShiftedIndicesUpTo(j - 1) \o ShiftedIndices(j)

\* the indices of every merged primitive are below its own vertex count
OwnIndicesValid ==
    \A j \in 1..Len(Primitives) :
        HasPositions(j) =>
            \A i \in 1..Len(Primitives[j].indices.array) :
                Primitives[j].indices.array[i] < OwnVertexCount(j)

\* C23: the merged indices are those of the primitives with a POSITION
\* array, each shifted by the number of vertices merged before it, a
\* primitive without an index buffer giving offset .. offset + n - 1; when
\* the indices of every primitive are below its own vertex count, every
\* merged index is below the merged vertex count; and the merge of the
\* worker yields the same positions and indices.
C23_MergedMesh ==
    (pc \in {"analyzed", "extracted"}) =>
        /\ indices = ShiftedIndicesUpTo(Len(Primitives))
        /\ OwnIndicesValid =>
               \A i \in 1..Len(indices) : indices[i] < Len(positions) \div 3
        /\ pc = "extracted" =>
               /\ allPositions = positions
               /\ allIndices = indices

\* a primitive without an index buffer, then a primitive with the indices
\* 0, 1, 2
C23_Witness ==
    /\ pc = "extracted"
    /\ OwnIndicesValid
    /\ Len(Primitives) = 2
    /\ ~Primitives[1].indices.present
    /\ indices = <<0, 1, 2, 3, 4, 5>>
    /\ allIndices = indices
    /\ allPositions[12] = 16777216

(***************************************************************************)
(* useGlbAnalyzer (part_001) and the analyzer worker (part_007).           *)
(* An analyze call is known by its number c, the order in which the calls  *)
(* were made.  The object URL a call creates is [url |-> c], the array     *)
(* buffer it posts is the payload c, and the result of analysing that      *)
(* buffer is [of |-> c].  A worker response is [id, type, body] with the   *)
(* stage, the result or the message as its body.                           *)
(***************************************************************************)
MaxCalls == 2

ObjectUrl(c) == [url |-> c]

\* URL.revokeObjectURL(objectUrlRef.current) under if (objectUrlRef.current)
RevokeCurrent == {c \in liveUrls : objectUrlRef # ObjectUrl(c)}

\* a catch block of the hook: setState({status: 'error', ...})
ErrorState(message) ==
    [status |-> "error", result |-> Null, error |-> [message |-> message],
     modelUrl |-> Null]

\* setState: React drops an update of a component that has unmounted
setState(next) == IF mounted THEN next ELSE state

Progress(id, stage) == [id |-> id, type |-> "progress", body |-> stage]
ErrorResponse(id) ==
    [id |-> id, type |-> "error", body |-> [message |-> "analysis failed"]]
ResultResponse(id, payload) ==
    [id |-> id, type |-> "result", body |-> [of |-> payload]]

\* self.postMessage({ type: 'ready' }) when the worker script starts
Ready == [id |-> Undefined, type |-> "ready", body |-> Null]

\* a variant that keeps the error of the previous state on a result
onmessageKeepError(prev, response) ==
    IF response.type = "ready" THEN prev
    ELSE IF response.type = "progress"
    THEN [prev EXCEPT !.status = response.body]
    ELSE IF response.type = "result"
    THEN [prev EXCEPT !.status = "done", !.result = response.body]
    ELSE [prev EXCEPT !.status = "error", !.result = Null,
                      !.error = response.body]

\* workerRef.current.onmessage: the new state for the previous state prev
onmessage(prev, response) ==
    IF response.type = "ready" THEN prev
    ELSE IF response.type = "progress"
    THEN [prev EXCEPT !.status = response.body]
    ELSE IF response.type = "result"
    THEN [prev EXCEPT !.status = "done", !.result = response.body,
                      !.error = Null]
    ELSE IF response.type = "error"
    THEN [prev EXCEPT !.status = "error", !.result = Null,
                      !.error = response.body]
    ELSE prev

\* a message in the log of its request: its stage, or its type when it is
\* no progress message
KindsOf(messages) ==
    [k \in 1..Len(messages) |->
        IF messages[k].type = "progress" THEN messages[k].body
        ELSE messages[k].type]

\* a variant that goes on to the next stage after posting an error
handleAnalyzeRestGoingOn(id, payload, thrownAt) ==
    IF thrownAt = "readBinary" THEN <<ErrorResponse(id), Progress(id, "analyzing")>>
    ELSE <<Progress(id, "analyzing"), Progress(id, "extracting"),
           ResultResponse(id, payload)>>

\* handleAnalyze from the end of `await webIO.readBinary` on: the messages
\* it posts when the step thrownAt throws ("none": no step throws)
handleAnalyzeRest(id, payload, thrownAt) ==
    IF thrownAt = "readBinary" THEN <<ErrorResponse(id)>>
    ELSE <<Progress(id, "analyzing")>> \o
         (IF thrownAt = "computeDiagnosticsFromDocument"
          THEN <<ErrorResponse(id)>>
          ELSE <<Progress(id, "extracting")>> \o
               (IF thrownAt = "extractProblemGeometry"
                THEN <<ErrorResponse(id)>>
                ELSE <<ResultResponse(id, payload)>>))

InitApp == InitMerge

\* analyzeFile(file) up to `await file.arrayBuffer()`
AnalyzeFile ==
    /\ mounted
    /\ Len(calls) < MaxCalls
    /\ LET c == Len(calls) + 1
       IN  /\ liveUrls' = RevokeCurrent \cup {c}
           /\ objectUrlRef' = ObjectUrl(c)
           /\ glbObjectUrl' = ObjectUrl(c)
           /\ state' = setState([status |-> "loading", result |-> Null,
                                 error |-> Null, modelUrl |-> ObjectUrl(c)])
           /\ calls' = Append(calls, [kind |-> "file", at |-> "arrayBuffer"])
    /\ UNCHANGED <<requestIdRef, workerRef, mounted>>
    /\ UNCHANGED <<meshVars, mergeVars, workerVars, quality>>

\* getWorker(), ++requestIdRef.current and worker.postMessage(request)
PostRequest(c) ==
    /\ workerRef' = [created |-> TRUE]
    /\ posted' = IF workerRef = Null THEN Append(posted, Ready) ELSE posted
    /\ requestIdRef' = requestIdRef + 1
    /\ requests' = Append(requests, [id |-> requestIdRef', type |-> "analyze",
                                     payload |-> c])

\* analyzeFile after `await file.arrayBuffer()`: the buffer is posted, or
\* the promise was rejected and the catch block runs
FileRead ==
    \E c \in 1..Len(calls) :
        /\ calls[c] = [kind |-> "file", at |-> "arrayBuffer"]
        /\ calls' = [calls EXCEPT ![c] = Null]
        /\ \/ /\ PostRequest(c)
              /\ UNCHANGED state
           \/ /\ state' = setState(ErrorState("Failed to read file"))
              /\ UNCHANGED <<workerRef, posted, requestIdRef, requests>>
        /\ UNCHANGED <<objectUrlRef, glbObjectUrl, mounted, liveUrls, tasks,
                       sent>>
        /\ UNCHANGED <<meshVars, mergeVars, quality>>

\* analyzeUrl(url) up to `await fetch(url)`
AnalyzeUrl ==
    /\ mounted
    /\ Len(calls) < MaxCalls
    /\ liveUrls' = RevokeCurrent
    /\ objectUrlRef' = Null
    /\ state' = setState([status |-> "loading", result |-> Null,
                          error |-> Null, modelUrl |-> Null])
    /\ calls' = Append(calls, [kind |-> "url", at |-> "fetch"])
    /\ UNCHANGED <<glbObjectUrl, requestIdRef, workerRef, mounted>>
    /\ UNCHANGED <<meshVars, mergeVars, workerVars, quality>>

\* analyzeUrl after `await fetch(url)`: the response is ok, or fetch was
\* rejected or the response is not ok and the catch block runs
Fetched ==
    \E c \in 1..Len(calls) :
        /\ calls[c] = [kind |-> "url", at |-> "fetch"]
        /\ \/ /\ calls' = [calls EXCEPT ![c].at = "arrayBuffer"]
              /\ UNCHANGED state
           \/ /\ calls' = [calls EXCEPT ![c] = Null]
              /\ state' = setState(ErrorState("Failed to fetch"))
        /\ UNCHANGED <<objectUrlRef, glbObjectUrl, requestIdRef, workerRef,
                       mounted, liveUrls>>
        /\ UNCHANGED <<meshVars, mergeVars, workerVars, quality>>

\* analyzeUrl after `await response.arrayBuffer()`: the object URL is made
\* and the buffer is posted, or the promise was rejected and the catch
\* block runs
BodyRead ==
    \E c \in 1..Len(calls) :
        /\ calls[c] = [kind |-> "url", at |-> "arrayBuffer"]
        /\ calls' = [calls EXCEPT ![c] = Null]
        /\ \/ /\ liveUrls' = liveUrls \cup {c}
              /\ objectUrlRef' = ObjectUrl(c)
              /\ glbObjectUrl' = ObjectUrl(c)
              /\ state' = setState([state EXCEPT !.modelUrl = ObjectUrl(c)])
              /\ PostRequest(c)
           \/ /\ state' = setState(ErrorState("Failed to fetch URL"))
              /\ UNCHANGED <<liveUrls, objectUrlRef, glbObjectUrl, workerRef,
                             posted, requestIdRef, requests>>
        /\ UNCHANGED <<mounted, tasks, sent>>
        /\ UNCHANGED <<meshVars, mergeVars, quality>>

\* reset()
Reset ==
    /\ mounted
    /\ liveUrls' = RevokeCurrent
    /\ objectUrlRef' = Null
    /\ glbObjectUrl' = Null
    /\ state' = setState([status |-> "idle", result |-> Null, error |-> Null,
                          modelUrl |-> Null])
    /\ UNCHANGED <<requestIdRef, workerRef, mounted, calls>>
    /\ UNCHANGED <<meshVars, mergeVars, workerVars, quality>>

\* the component unmounts: the cleanup of the effect runs
Unmount ==
    /\ mounted
    /\ mounted' = FALSE
    /\ liveUrls' = RevokeCurrent
    /\ UNCHANGED <<state, objectUrlRef, glbObjectUrl, requestIdRef, workerRef,
                   calls>>
    /\ UNCHANGED <<meshVars, mergeVars, workerVars, quality>>

\* self.onmessage of the worker up to `await getIO()` in handleAnalyze
WorkerReceive ==
    /\ requests # <<>>
    /\ LET request == Head(requests)
       IN  /\ posted' = Append(posted, Progress(request.id, "parsing"))
           /\ sent' = (request.id :> <<"parsing">>) @@ sent
           /\ tasks' = tasks \cup {[id |-> request.id,
                                    payload |-> request.payload,
                                    at |-> "getIO"]}
    /\ requests' = Tail(requests)
    /\ UNCHANGED <<meshVars, mergeVars, hookVars, quality>>

\* handleAnalyze after `await getIO()`: readBinary is called, or getIO was
\* rejected and the catch block posts the error
WorkerIO ==
    \E task \in tasks :
        /\ task.at = "getIO"
        /\ \/ /\ tasks' = (tasks \ {task}) \cup {[task EXCEPT !.at = "readBinary"]}
              /\ UNCHANGED <<posted, sent>>
           \/ /\ tasks' = tasks \ {task}
              /\ posted' = Append(posted, ErrorResponse(task.id))
              /\ sent' = [sent EXCEPT ![task.id] = Append(@, "error")]
        /\ UNCHANGED requests
        /\ UNCHANGED <<meshVars, mergeVars, hookVars, quality>>

\* handleAnalyze after `await webIO.readBinary(...)` to its end
WorkerRun ==
    \E task \in tasks :
        /\ task.at = "readBinary"
        /\ tasks' = tasks \ {task}
        /\ \E thrownAt \in {"readBinary", "computeDiagnosticsFromDocument",
                            "extractProblemGeometry", "none"} :
               LET messages == handleAnalyzeRest(task.id, task.payload,
                                                 thrownAt)
               IN  /\ posted' = posted \o messages
                   /\ sent' = [sent EXCEPT ![task.id] = @ \o KindsOf(messages)]
        /\ UNCHANGED requests
        /\ UNCHANGED <<meshVars, mergeVars, hookVars, quality>>

\* the next message of the worker reaches workerRef.current.onmessage
Deliver ==
    /\ posted # <<>>
    /\ posted' = Tail(posted)
    /\ state' = setState(onmessage(state, Head(posted)))
    /\ UNCHANGED <<objectUrlRef, glbObjectUrl, requestIdRef, workerRef, mounted,
                   liveUrls, calls>>
    /\ UNCHANGED <<requests, tasks, sent>>
    /\ UNCHANGED <<meshVars, mergeVars, quality>>

NextApp ==
    \/ AnalyzeFile \/ FileRead \/ AnalyzeUrl \/ Fetched \/ BodyRead
    \/ Reset \/ Unmount
    \/ WorkerReceive \/ WorkerIO \/ WorkerRun \/ Deliver

SpecApp == InitApp /\ [][NextApp]_vars

\* what the worker has posted for request id
PostedFor(id) == IF id \in DOMAIN sent THEN sent[id] ELSE <<>>

Stages == <<"parsing", "analyzing", "extracting">>

\* request id has been handled to the end
Finished(id) ==
    /\ id \in 1..requestIdRef
    /\ \A k \in 1..Len(requests) : requests[k].id # id
    /\ \A task \in tasks : task.id # id

\* C26: for every request id the worker posts progress 'parsing',
\* 'analyzing', 'extracting' in this order and then one terminal message,
\* result or error and never both, with no message after it; on a failure
\* the messages are a prefix of the progress messages followed by one error.
C26_WorkerMessages ==
    \A id \in 1..MaxCalls :
        LET kinds == PostedFor(id)
            n     == Len(kinds)
        IN  /\ \/ n <= 3 /\ kinds = SubSeq(Stages, 1, n)
               \/ kinds = Stages \o <<"result">>
               \/ /\ n \in 1..4
                  /\ SubSeq(kinds, 1, n - 1) = SubSeq(Stages, 1, n - 1)
                  /\ kinds[n] = "error"
            /\ Finished(id) => n >= 1 /\ kinds[n] \in {"result", "error"}

\* one request has ended with its result and another with an error after
\* 'analyzing'
C26_Witness ==
    \E i, j \in 1..MaxCalls :
        /\ Finished(i) /\ Finished(j)
        /\ PostedFor(i) = Stages \o <<"result">>
        /\ PostedFor(j) = <<"parsing", "analyzing", "error">>

\* C27: a response of the worker changes the state of the hook only if its
\* id is the id of the most recent analyze request.
C27_StaleIgnored ==
    [][(posted # <<>> /\ posted' = Tail(posted)
            /\ Head(posted).id # requestIdRef)
           => state' = state]_vars

\* a result is shown for a model that is not the model of modelUrl
ResultOfAnotherModel ==
    /\ mounted
    /\ state.status = "done"
    /\ state.modelUrl # ObjectUrl(state.result.of)

\* C28: at any moment the unrevoked object URLs are at most the one held in
\* objectUrlRef, and none is left once the hook has unmounted.
C28_UrlsRevoked ==
    /\ \A c \in liveUrls : objectUrlRef = ObjectUrl(c)
    /\ ~mounted => liveUrls = {}

\* an object URL that no reference holds while the hook is mounted
UrlLeakedWhileMounted ==
    /\ mounted
    /\ \E c \in liveUrls : objectUrlRef # ObjectUrl(c)

\* C29: status 'done' implies that result is not null and error is null;
\* status 'error' implies that result is null and error is not null.
C29_StatusFields ==
    /\ state.status = "done" => state.result # Null /\ state.error = Null
    /\ state.status = "error" => state.result = Null /\ state.error # Null

\* a result is shown, every message has reached the hook, and another
\* request has ended with an error
C29_Witness ==
    /\ state.status = "done"
    /\ posted = <<>>
    /\ \E id \in DOMAIN sent :
           /\ Finished(id)
           /\ sent[id][Len(sent[id])] = "error"

(***************************************************************************)
(* The quality score of the analysis panel: getQualityScore reads four     *)
(* flags, windingCheckSkipped and six defect counts of a record.  The      *)
(* panel is modelled by the record it is given and the score it shows.     *)
(***************************************************************************)
\* the points getQualityScore takes off for the record d
deductions(d) ==
    (IF ~d.isWatertight THEN 15 ELSE 0)
    + (IF ~d.isManifold THEN 20 ELSE 0)
    + (IF d.hasNonManifoldVertices THEN 10 ELSE 0)
    + (IF ~d.hasConsistentWinding /\ ~d.windingCheckSkipped THEN 10 ELSE 0)
    + (IF d.degenerateTriangleCount > 0
       THEN Min2(15, d.degenerateTriangleCount) ELSE 0)
    + (IF d.selfIntersectionCount > 0
       THEN Min2(20, d.selfIntersectionCount * 2) ELSE 0)
    + (IF d.tJunctionCount > 0 THEN Min2(10, d.tJunctionCount) ELSE 0)
    + (IF d.duplicateVertexCount > 0
       THEN Min2(5, d.duplicateVertexCount \div 100) ELSE 0)
    + (IF d.tinyTriangleCount > 0
       THEN Min2(5, d.tinyTriangleCount \div 10) ELSE 0)
    + (IF d.needleTriangleCount > 0
       THEN Min2(5, d.needleTriangleCount \div 10) ELSE 0)

labelOf(score) ==
    IF score >= 90 THEN "Excellent"
    ELSE IF score >= 70 THEN "Good"
    ELSE IF score >= 50 THEN "Fair"
    ELSE "Poor"

\* a variant without the clamp of the score to 0..100
getQualityScoreUnclamped(d) ==
    LET score == 100 - deductions(d)
    IN  [score |-> score, label |-> labelOf(score)]

\* getQualityScore(diagnostics): the score and its label (the colour goes
\* with the label)
getQualityScore(d) ==
    LET score == Max2(0, Min2(100, 100 - deductions(d)))
    IN  [score |-> score, label |-> labelOf(score)]

\* the fields of a diagnostics record that getQualityScore reads
ScoreFields(d) ==
    [isWatertight |-> d.isWatertight,
     isManifold |-> d.isManifold,
     hasNonManifoldVertices |-> d.hasNonManifoldVertices,
     hasConsistentWinding |-> d.hasConsistentWinding,
     windingCheckSkipped |-> d.windingCheckSkipped,
     degenerateTriangleCount |-> d.degenerateTriangleCount,
     selfIntersectionCount |-> d.selfIntersectionCount,
     tJunctionCount |-> d.tJunctionCount,
     duplicateVertexCount |-> d.duplicateVertexCount,
     tinyTriangleCount |-> d.tinyTriangleCount,
     needleTriangleCount |-> d.needleTriangleCount]

\* the record of the size guard for a mesh of one triangle more than
\* MAX_SAFE_TRIANGLES
CapacityLimitedRecord ==
    ScoreFields(capacityLimitedDiagnostics(<<0, 0, 0, 2, 0, 0, 0, 2, 0>>, 3,
                                           MAX_SAFE_TRIANGLES + 1))

\* the records of a mesh below the size guard: a watertight mesh is
\* manifold, a skipped winding check is not consistent, and the counts are
\* taken at 0 and just below and at the value from which a deduction stays
\* the same
ComputedRecords ==
    {[isWatertight |-> w, isManifold |-> m, hasNonManifoldVertices |-> nmv,
      hasConsistentWinding |-> cw, windingCheckSkipped |-> skipped,
      degenerateTriangleCount |-> degenerate,
      selfIntersectionCount |-> selfIntersection,
      tJunctionCount |-> tJunction,
      duplicateVertexCount |-> duplicate,
      tinyTriangleCount |-> tiny,
      needleTriangleCount |-> needle] :
        w \in BOOLEAN, m \in BOOLEAN, nmv \in BOOLEAN, cw \in BOOLEAN,
        skipped \in BOOLEAN,
        degenerate \in {0, 14, 15}, selfIntersection \in {0, 9, 10},
        tJunction \in {0, 9, 10}, duplicate \in {0, 99, 499, 500},
        tiny \in {0, 9, 50}, needle \in {0, 9, 50}}

ScoreInputs ==
    {CapacityLimitedRecord} \cup
    {d \in ComputedRecords :
        /\ d.isWatertight => d.isManifold
        /\ d.windingCheckSkipped => ~d.hasConsistentWinding}

DefectCounts ==
    {"degenerateTriangleCount", "selfIntersectionCount", "tJunctionCount",
     "duplicateVertexCount", "tinyTriangleCount", "needleTriangleCount"}

InitScore ==
    /\ positions = <<>>
    /\ indices = <<>>
    /\ extraTriangles = 0
    /\ pc = "input"
    /\ diagnostics \in ScoreInputs
    /\ edgeFaceMap = EmptyMap
    /\ problemGeometry = NoGeometry
    /\ overlayEdgeFaceMap = EmptyMap
    /\ NoDocument
    /\ InitHook
    /\ InitWorker
    /\ quality = NoQuality

\* AnalysisPanel renders: const quality = getQualityScore(diagnostics)
Score ==
    /\ pc \in {"input", "raised"}
    /\ quality' = getQualityScore(diagnostics)
    /\ pc' = IF pc = "input" THEN "scored" ELSE "rescored"
    /\ UNCHANGED <<positions, indices, extraTriangles, diagnostics, edgeFaceMap,
                   problemGeometry, overlayEdgeFaceMap>>
    /\ UNCHANGED <<mergeVars, hookVars, workerVars>>

\* the panel is given a record with one more defect of one kind and all
\* other fields the same; the score shown is still that of the record before
RaiseCount ==
    /\ pc = "scored"
    /\ \E count \in DefectCounts :
           diagnostics' = [diagnostics EXCEPT ![count] = @ + 1]
    /\ pc' = "raised"
    /\ UNCHANGED <<positions, indices, extraTriangles, edgeFaceMap,
                   problemGeometry, overlayEdgeFaceMap>>
    /\ UNCHANGED <<mergeVars, hookVars, workerVars, quality>>

NextScore == Score \/ RaiseCount

SpecScore == InitScore /\ [][NextScore]_vars

\* C30: getQualityScore returns an integer score in 0..100 for every record,
\* the capacity-limited record with counts of -1 included; the score of a
\* record with one defect count raised and all other fields the same is not
\* above the score of the record before; the label is Excellent from 90,
\* Good from 70, Fair from 50 and Poor below.
C30_QualityScore ==
    /\ pc \in {"scored", "raised", "rescored"} =>
           /\ quality.score \in 0..100
           /\ quality.label =
                  CASE quality.score >= 90 -> "Excellent"
                    [] quality.score \in 70..89 -> "Good"
                    [] quality.score \in 50..69 -> "Fair"
                    [] OTHER -> "Poor"
    /\ pc = "raised" => getQualityScore(diagnostics).score <= quality.score

\* the capacity-limited record has been scored, one of its counts has gone
\* from -1 to 0, and the score is the same 65
C30_Witness ==
    /\ pc = "rescored"
    /\ diagnostics # CapacityLimitedRecord
    /\ \E count \in DefectCounts :
           [diagnostics EXCEPT ![count] = -1] = CapacityLimitedRecord
    /\ quality = [score |-> 65, label |-> "Fair"]

\* a record whose deductions add up to more than 100 is shown with score 0
ScoreClampedAtZero ==
    /\ pc = "scored"
    /\ deductions(diagnostics) > 100
    /\ quality = [score |-> 0, label |-> "Poor"]

\* raising one count has lowered the score
ScoreLowered ==
    /\ pc = "rescored"
    /\ \E count \in DefectCounts :
           getQualityScore([diagnostics EXCEPT ![count] = @ - 1]).score
               > quality.score

====
